---- MODULE Spec2Model ----
(***************************************************************************)
(* A model of PE::Parser (platform/src/portable_executable.cpp): the      *)
(* header parser run at construction, the RVA mapper, the section views,  *)
(* the directory walks and the two overrides.                             *)
(*                                                                         *)
(* Unsigned integers of the program are little-endian tuples of 16-bit    *)
(* limbs, so that 32-bit and 64-bit arithmetic keeps its width: a         *)
(* uint32_t is a 2-tuple, a uint64_t or size_t a 4-tuple, a uint16_t or a *)
(* uint8_t a plain number.  The image buffer is a size and the bytes that *)
(* are not zero.                                                           *)
(***************************************************************************)
EXTENDS Integers, Sequences, FiniteSets, TLC

VARIABLES
  buffer_,                  \* Parser::buffer_: the image bytes
  pe_info_,                 \* Parser::pe_info_: the cached headers, NoInfo before parse
  override_base_address_,   \* Parser::override_base_address_ (uint64_t)
  override_entry_point_,    \* Parser::override_entry_point_ (uint64_t)
  pc,                       \* "new", "ready", "failed", "exceptions", "crashed"
  op,                       \* the last operation called and its argument
  ret,                      \* what the last operation returned or threw
  walk                      \* the frame of a running get_exception_directory

vars == <<buffer_, pe_info_, override_base_address_, override_entry_point_,
          pc, op, ret, walk>>

-----------------------------------------------------------------------------
(* Fixed-width unsigned arithmetic on limbs.                               *)

Limb(a, i) == IF i <= Len(a) THEN a[i] ELSE 0

RECURSIVE Carry(_, _, _)
Carry(a, b, i) ==
  IF i = 0 THEN 0 ELSE (Limb(a, i) + Limb(b, i) + Carry(a, b, i - 1)) \div 65536

RECURSIVE Borrow(_, _, _)
Borrow(a, b, i) ==
  IF i = 0 THEN 0
  ELSE IF Limb(a, i) - Limb(b, i) - Borrow(a, b, i - 1) < 0 THEN 1 ELSE 0

\* a + b and a - b in an unsigned type of n limbs (modulo 2^(16n)); x and y
\* are the values of the operands.
AddN(a, b, n) ==
  CHOOSE sum \in { [i \in 1..n |-> (Limb(x, i) + Limb(y, i) + Carry(x, y, i - 1)) % 65536] :
                     x \in {a}, y \in {b} } : TRUE
SubN(a, b, n) ==
  CHOOSE difference \in
    { [i \in 1..n |-> (Limb(x, i) - Limb(y, i) - Borrow(x, y, i - 1) + 65536) % 65536] :
        x \in {a}, y \in {b} } : TRUE
\* a < b, both read as unsigned numbers of n limbs.
LtN(a, b, n) == \E x \in {a}, y \in {b} : Borrow(x, y, n) = 1
LeN(a, b, n) == ~LtN(b, a, n)

\* A number below 2^31 as an unsigned value of n limbs, and back.
FromNat(k, n) ==
  [i \in 1..n |-> IF i = 1 THEN k % 65536
                  ELSE IF i = 2 THEN (k \div 65536) % 65536 ELSE 0]
IsSmall(a) == Limb(a, 2) < 32768 /\ \A i \in 3..Len(a) : a[i] = 0
ToNat(a) == Limb(a, 1) + 65536 * Limb(a, 2)
IsZero(a) == \A i \in 1..Len(a) : a[i] = 0

\* uint32_t and uint64_t / size_t.
add_u32(a, b) == AddN(a, b, 2)
sub_u32(a, b) == SubN(a, b, 2)
lt_u32(a, b) == LtN(a, b, 2)
add_u64(a, b) == AddN(a, b, 4)
lt_u64(a, b) == LtN(a, b, 4)
\* The integral conversion uint32_t -> size_t / uint64_t (zero extension).
to_u64(a) ==
  CHOOSE wide \in { <<Limb(x, 1), Limb(x, 2), Limb(x, 3), Limb(x, 4)>> : x \in {a} } : TRUE
u64(k) == FromNat(k, 4)
u32(k) == FromNat(k, 2)

\* a / d for a small divisor d (long division, most significant limb first).
RECURSIVE DivRem(_, _, _)
DivRem(a, d, i) ==
  IF i > Len(a) THEN 0 ELSE (DivRem(a, d, i + 1) * 65536 + a[i]) % d
div_small(a, d) ==
  [i \in 1..Len(a) |-> (DivRem(a, d, i + 1) * 65536 + a[i]) \div d]

-----------------------------------------------------------------------------
(* Results: a value, a thrown std::runtime_error, or undefined behaviour  *)
(* (an access outside the buffer that no check guards).                   *)

NotPE == "Not a valid PE file"
BadNtSignature == "Invalid PE signature"
UnsupportedMachine == "Not an x64 binary"
UnsupportedOptionalMagic == "Not a PE32+ binary"
BufferOverflow == "Buffer overflow reading structure"
RvaUnmapped == "RVA not found in any section"
SectionNotFound == "Section not found"

Ok(v) == [kind |-> "ok", value |-> v]
Throw(e) == [kind |-> "throw", error |-> e]
\* An unchecked access of `length` bytes at `offset` that leaves the buffer
\* (length 0: an iterator to `offset`, beyond the end).
Undefined(offset, length) == [kind |-> "ub", offset |-> offset, length |-> length]
IsOk(r) == r.kind = "ok"

-----------------------------------------------------------------------------
(* The byte span.                                                          *)

\* A byte span of `size` bytes; only the non-zero bytes are kept.
Span(size, mem) ==
  [size |-> size,
   mem |-> [k \in {j \in DOMAIN mem : j < size /\ mem[j] # 0} |-> mem[k]]]

Byte(data, o) == IF o \in DOMAIN data.mem THEN data.mem[o] ELSE 0
Get16(data, o) == Byte(data, o) + 256 * Byte(data, o + 1)
Get32(data, o) == <<Get16(data, o), Get16(data, o + 2)>>
Get64(data, o) ==
  <<Get16(data, o), Get16(data, o + 2), Get16(data, o + 4), Get16(data, o + 6)>>
GetBytes(data, o, n) == [i \in 1..n |-> Byte(data, o + i - 1)]

\* read_struct<T>'s check: offset + sizeof(T) > data.size(), in size_t.
read_overflow(data, offset, size_of_T) ==
  lt_u64(u64(data.size), add_u64(offset, u64(size_of_T)))

\* read_struct<T>: throws when the check fires, else copies sizeof(T) bytes from
\* data + offset; the value here is the position the bytes are copied from, and
\* the caller lays T's fields over them.  An offset so large that
\* offset + sizeof(T) wraps in size_t passes the check and reads outside.
read_struct(data, offset, size_of_T) ==
  IF read_overflow(data, offset, size_of_T) THEN Throw(BufferOverflow)
  ELSE IF ~IsSmall(offset) \/ ToNat(offset) + size_of_T > data.size
       THEN Undefined(offset, u64(size_of_T))
  ELSE Ok(ToNat(offset))

-----------------------------------------------------------------------------
(* The on-disk records (PE/COFF layout, little-endian, packed).           *)

sizeof_DosHeader == 64
sizeof_FileHeader == 20
sizeof_OptionalHeader == 240
sizeof_SectionHeader == 40
NumberOfDataDirectories == 16

DosHeader(data, o) ==
  [e_magic |-> Get16(data, o), e_lfanew |-> Get32(data, o + 60)]

FileHeader(data, o) ==
  [machine |-> Get16(data, o),
   number_of_sections |-> Get16(data, o + 2),
   size_of_optional_header |-> Get16(data, o + 16)]

DataDirectory(data, o) ==
  [virtual_address |-> Get32(data, o), size |-> Get32(data, o + 4)]

OptionalHeader(data, o) ==
  [magic |-> Get16(data, o),
   address_of_entry_point |-> Get32(data, o + 16),
   image_base |-> Get64(data, o + 24),
   data_directories |->
     [i \in 1..NumberOfDataDirectories |-> DataDirectory(data, o + 112 + 8 * (i - 1))]]

SectionHeader(data, o) ==
  [name |-> GetBytes(data, o, 8),
   virtual_size |-> Get32(data, o + 8),
   virtual_address |-> Get32(data, o + 12),
   size_of_raw_data |-> Get32(data, o + 16),
   pointer_to_raw_data |-> Get32(data, o + 20),
   characteristics |-> Get32(data, o + 36)]

Uint32(data, o) == Get32(data, o)
Uint16(data, o) == Get16(data, o)
Uint64(data, o) == Get64(data, o)

-----------------------------------------------------------------------------
(* Parser::parse.                                                          *)

\* The loop of lines 67-70: section i is read at section_offset + i * 40; the
\* first read that fails ends parse.
RECURSIVE read_sections(_, _, _, _, _)
read_sections(buffer, section_offset, i, number_of_sections, sections) ==
  IF i >= number_of_sections THEN Ok(sections)
  ELSE LET s == read_struct(buffer,
                            add_u64(section_offset, u64(i * sizeof_SectionHeader)),
                            sizeof_SectionHeader)
       IN IF ~IsOk(s) THEN s
          ELSE read_sections(buffer, section_offset, i + 1, number_of_sections,
                             Append(sections, SectionHeader(buffer, s.value)))

parse_sections(buffer, pe_offset, dos_header, file_header, optional_header) ==
  LET section_offset ==
        add_u64(add_u64(add_u64(pe_offset, u64(4)), u64(sizeof_FileHeader)),
                u64(file_header.size_of_optional_header))
      sections == read_sections(buffer, section_offset, 0,
                                file_header.number_of_sections, <<>>)
  IN IF ~IsOk(sections) THEN sections
     ELSE Ok([dos_header |-> dos_header,
              file_header |-> file_header,
              optional_header |-> optional_header,
              section_headers |-> sections.value,
              data_directories |-> optional_header.data_directories])

parse_optional(buffer, pe_offset, dos_header, file_header) ==
  LET r == read_struct(buffer,
                       add_u64(add_u64(pe_offset, u64(4)), u64(sizeof_FileHeader)),
                       sizeof_OptionalHeader)
  IN IF ~IsOk(r) THEN r
     ELSE LET optional_header == OptionalHeader(buffer, r.value)
          IN IF optional_header.magic # \h020B THEN Throw(UnsupportedOptionalMagic)
             ELSE parse_sections(buffer, pe_offset, dos_header, file_header,
                                 optional_header)

parse_file(buffer, pe_offset, dos_header) ==
  LET r == read_struct(buffer, add_u64(pe_offset, u64(4)), sizeof_FileHeader)
  IN IF ~IsOk(r) THEN r
     ELSE LET file_header == FileHeader(buffer, r.value)
          IN IF file_header.machine # \h8664 THEN Throw(UnsupportedMachine)
             ELSE parse_optional(buffer, pe_offset, dos_header, file_header)

\* parse's second step with the machine checked before the signature.
parse_nt_machine_first(buffer, dos_header) ==
  LET pe_offset == to_u64(dos_header.e_lfanew)
      f == read_struct(buffer, add_u64(pe_offset, u64(4)), sizeof_FileHeader)
      r == read_struct(buffer, pe_offset, 4)
  IN IF ~IsOk(f) THEN f
     ELSE IF FileHeader(buffer, f.value).machine # \h8664 THEN Throw(UnsupportedMachine)
     ELSE IF Uint32(buffer, r.value) # <<\h4550, 0>> THEN Throw(BadNtSignature)
     ELSE parse_file(buffer, pe_offset, dos_header)

parse_nt(buffer, dos_header) ==
  LET pe_offset == to_u64(dos_header.e_lfanew)
      r == read_struct(buffer, pe_offset, 4)
  IN IF ~IsOk(r) THEN r
     ELSE IF Uint32(buffer, r.value) # <<\h4550, 0>> THEN Throw(BadNtSignature)
     ELSE parse_file(buffer, pe_offset, dos_header)

parse(buffer) ==
  LET r == read_struct(buffer, u64(0), sizeof_DosHeader)
  IN IF ~IsOk(r) THEN r
     ELSE LET dos_header == DosHeader(buffer, r.value)
          IN IF dos_header.e_magic # \h5A4D THEN Throw(NotPE)
             ELSE parse_nt(buffer, dos_header)

-----------------------------------------------------------------------------
(* The parser object and its address mapper.                               *)

\* The members a const member function can read.
Parser(buffer, pe_info, override_base_address, override_entry_point) ==
  [buffer_ |-> buffer, pe_info_ |-> pe_info,
   override_base_address_ |-> override_base_address,
   override_entry_point_ |-> override_entry_point]

\* is_rva_in_section with the end of the range included.
is_rva_in_section_inclusive(rva, section) ==
  /\ ~lt_u32(rva, section.virtual_address)
  /\ ~lt_u32(add_u32(section.virtual_address, section.virtual_size), rva)

\* is_rva_in_section: both comparisons and the sum are in uint32_t.
is_rva_in_section(rva, section) ==
  /\ ~lt_u32(rva, section.virtual_address)
  /\ lt_u32(rva, add_u32(section.virtual_address, section.virtual_size))

\* std::ranges::find_if over the section headers from index i: the index of the
\* first section holding rva, Len + 1 for end().
RECURSIVE find_section_of_rva(_, _, _)
find_section_of_rva(section_headers, rva, i) ==
  IF i > Len(section_headers) THEN i
  ELSE IF is_rva_in_section(rva, section_headers[i]) THEN i
  ELSE find_section_of_rva(section_headers, rva, i + 1)

\* Parser::rva_to_offset: the uint32_t expression rva - va + raw, as a size_t.
rva_to_offset(self, rva) ==
  LET headers == self.pe_info_.section_headers
      it == find_section_of_rva(headers, rva, 1)
  IN IF it > Len(headers) THEN Throw(RvaUnmapped)
     ELSE Ok(to_u64(add_u32(sub_u32(rva, headers[it].virtual_address),
                            headers[it].pointer_to_raw_data)))

\* Parser::get_image_base and Parser::get_entry_point.
get_image_base(self) ==
  IF ~IsZero(self.override_base_address_) THEN self.override_base_address_
  ELSE self.pe_info_.optional_header.image_base

\* An entry point that adds the entry override to the image base on disk.
get_entry_point_on_disk_base(self) ==
  add_u64(self.pe_info_.optional_header.image_base,
          IF ~IsZero(self.override_entry_point_) THEN self.override_entry_point_
          ELSE to_u64(self.pe_info_.optional_header.address_of_entry_point))

get_entry_point(self) ==
  IF ~IsZero(self.override_entry_point_)
  THEN add_u64(get_image_base(self), self.override_entry_point_)
  ELSE add_u64(self.pe_info_.optional_header.image_base,
               to_u64(self.pe_info_.optional_header.address_of_entry_point))

-----------------------------------------------------------------------------
(* Section views.                                                          *)

\* The bytes [start, start + length) of a span, as a span of their own.
Slice(data, start, length) ==
  Span(length, [k \in {j - start : j \in {x \in DOMAIN data.mem : x >= start}}
                 |-> data.mem[k + start]])

\* std::vector<uint8_t>(buffer_.begin() + start, buffer_.begin() + start + length):
\* no check guards the two iterators; a range that leaves the buffer is an
\* out-of-bounds read.
copy_range(buffer, start, length) ==
  IF lt_u64(u64(buffer.size), add_u64(start, length)) THEN Undefined(start, length)
  ELSE Ok(Slice(buffer, ToNat(start), ToNat(length)))

\* std::string::starts_with and the cut at the first NUL (substr(0, find('\0'))).
starts_with(name, prefix) ==
  Len(prefix) <= Len(name) /\ \A i \in 1..Len(prefix) : name[i] = prefix[i]

RECURSIVE find_nul(_, _)
find_nul(name, i) ==
  IF i > Len(name) THEN i ELSE IF name[i] = 0 THEN i ELSE find_nul(name, i + 1)
trim_at_nul(name) == SubSeq(name, 1, find_nul(name, 1) - 1)

\* section.characteristics & scn_mem_execute (0x20000000).
is_executable(section) == (section.characteristics[2] \div \h2000) % 2 = 1

RECURSIVE find_section_named(_, _, _)
find_section_named(section_headers, section_name, i) ==
  IF i > Len(section_headers) THEN i
  ELSE IF starts_with(section_headers[i].name, section_name) THEN i
  ELSE find_section_named(section_headers, section_name, i + 1)

\* Parser::get_section_data.
get_section_data(self, section_name) ==
  LET headers == self.pe_info_.section_headers
      section == find_section_named(headers, section_name, 1)
  IN IF section > Len(headers) THEN Throw(SectionNotFound)
     ELSE copy_range(self.buffer_, to_u64(headers[section].pointer_to_raw_data),
                     to_u64(headers[section].size_of_raw_data))

get_text_section_data(self) == get_section_data(self, <<46, 116, 101, 120, 116>>)

\* The loop body of get_executable_sections_data / get_all_sections_data.
RECURSIVE sections_data(_, _, _, _)
sections_data(self, i, only_executable, result) ==
  LET headers == self.pe_info_.section_headers
  IN IF i > Len(headers) THEN Ok(result)
     ELSE IF only_executable /\ ~is_executable(headers[i])
          THEN sections_data(self, i + 1, only_executable, result)
     ELSE LET data == copy_range(self.buffer_,
                                 to_u64(headers[i].pointer_to_raw_data),
                                 to_u64(headers[i].size_of_raw_data))
          IN IF ~IsOk(data) THEN data
             ELSE sections_data(self, i + 1, only_executable,
                    Append(result,
                      [name |-> trim_at_nul(headers[i].name),
                       data |-> data.value,
                       virtual_address |->
                         add_u64(get_image_base(self), to_u64(headers[i].virtual_address)),
                       executable |-> only_executable \/ is_executable(headers[i])]))

get_executable_sections_data(self) == sections_data(self, 1, TRUE, <<>>)
get_all_sections_data(self) == sections_data(self, 1, FALSE, <<>>)

\* Parser::section_name_for_address: start and end are size_t, both ends included.
RECURSIVE section_name_from(_, _, _)
section_name_from(self, address, i) ==
  LET headers == self.pe_info_.section_headers
  IN IF i > Len(headers) THEN <<>>
     ELSE LET start == add_u64(get_image_base(self), to_u64(headers[i].virtual_address))
              end == add_u64(to_u64(headers[i].size_of_raw_data), start)
          IN IF ~lt_u64(address, start) /\ ~lt_u64(end, address)
             THEN trim_at_nul(headers[i].name)
             ELSE section_name_from(self, address, i + 1)

section_name_for_address(self, address) == Ok(section_name_from(self, address, 1))

-----------------------------------------------------------------------------
(* Strings and the import directory.                                       *)

\* The bytes from o up to the first zero byte or the end of the buffer.
RECURSIVE bytes_until_nul(_, _)
bytes_until_nul(buffer, o) ==
  IF o >= buffer.size \/ Byte(buffer, o) = 0 THEN <<>>
  ELSE <<Byte(buffer, o)>> \o bytes_until_nul(buffer, o + 1)

\* std::string{ name_start, std::find(name_start, buffer_.end(), 0) } with
\* name_start = buffer_.begin() + start: no check guards start, and a start
\* beyond end() makes find run outside the buffer.
string_at(buffer, start) ==
  IF lt_u64(u64(buffer.size), start) THEN Undefined(start, u64(0))
  ELSE Ok(bytes_until_nul(buffer, ToNat(start)))

sizeof_ImportDirectory == 20
sizeof_ImportLookupEntry64 == 8

ImportDirectory(data, o) ==
  [import_lookup_table_rva |-> Get32(data, o),
   name_rva |-> Get32(data, o + 12),
   import_address_table_rva |-> Get32(data, o + 16)]

\* The ordinal test on bit 31 instead of bit 63.
bit31(data) == data[2] >= \h8000

\* entry.data & (1ULL << 63), entry.data & 0xFFFF, entry.data & 0x7FFFFFFF.
bit63(data) == data[4] >= \h8000
low16(data) == data[1]
low31(data) == <<data[1], data[2] % \h8000>>

\* One import entry of lines 199-210.
import_entry(self, data, thunk_rva) ==
  IF bit63(data)
  THEN Ok([ordinal |-> low16(data), name |-> <<>>, thunk_rva |-> thunk_rva])
  ELSE LET hint == rva_to_offset(self, low31(data))
       IN IF ~IsOk(hint) THEN hint
          ELSE LET name == string_at(self.buffer_, add_u64(hint.value, u64(2)))
               IN IF ~IsOk(name) THEN name
                  ELSE Ok([ordinal |-> 0, name |-> <<name.value>>,
                           thunk_rva |-> thunk_rva])

\* The while ( true ) loop of lines 196-213.
RECURSIVE import_entries(_, _, _, _, _)
import_entries(self, lookup_offset, iat_base_rva, index, entries) ==
  LET r == read_struct(self.buffer_, lookup_offset, sizeof_ImportLookupEntry64)
  IN IF ~IsOk(r) THEN r
     ELSE LET data == Uint64(self.buffer_, r.value)
          IN IF IsZero(data) THEN Ok(entries)
             ELSE LET thunk_rva == add_u64(to_u64(iat_base_rva), u64(index * 8))
                      entry == import_entry(self, data, thunk_rva)
                  IN IF ~IsOk(entry) THEN entry
                     ELSE import_entries(self,
                            add_u64(lookup_offset, u64(sizeof_ImportLookupEntry64)),
                            iat_base_rva, index + 1, Append(entries, entry.value))

\* One descriptor of lines 187-214: the DLL name, then the lookup table.
import_descriptor(self, import) ==
  LET name_offset == rva_to_offset(self, import.name_rva)
  IN IF ~IsOk(name_offset) THEN name_offset
     ELSE LET dll_name == string_at(self.buffer_, name_offset.value)
              lookup_offset == rva_to_offset(self, import.import_lookup_table_rva)
          IN IF ~IsOk(dll_name) THEN dll_name
             ELSE IF ~IsOk(lookup_offset) THEN lookup_offset
             ELSE LET entries == import_entries(self, lookup_offset.value,
                                                import.import_address_table_rva, 0, <<>>)
                  IN IF ~IsOk(entries) THEN entries
                     ELSE Ok([dll_name |-> dll_name.value, entries |-> entries.value])

\* The for loop of lines 183-215.
RECURSIVE import_descriptors(_, _, _)
import_descriptors(self, current_offset, result) ==
  IF lt_u64(u64(self.buffer_.size), add_u64(current_offset, u64(sizeof_ImportDirectory)))
  THEN Ok(result)
  ELSE LET r == read_struct(self.buffer_, current_offset, sizeof_ImportDirectory)
       IN IF ~IsOk(r) THEN r
          ELSE LET import == ImportDirectory(self.buffer_, r.value)
               IN IF IsZero(import.import_lookup_table_rva) THEN Ok(result)
                  ELSE LET d == import_descriptor(self, import)
                       IN IF ~IsOk(d) THEN d
                          ELSE import_descriptors(self,
                                 add_u64(current_offset, u64(sizeof_ImportDirectory)),
                                 Append(result, d.value))

\* Parser::get_import_directory.
get_import_directory(self) ==
  LET import_dir == self.pe_info_.data_directories[2]
  IN IF IsZero(import_dir.virtual_address) THEN Ok(<<>>)
     ELSE LET offset == rva_to_offset(self, import_dir.virtual_address)
          IN IF ~IsOk(offset) THEN offset
             ELSE import_descriptors(self, offset.value, <<>>)

-----------------------------------------------------------------------------
(* The base relocation directory.                                          *)

sizeof_BaseRelocationBlock == 8
sizeof_BaseRelocationEntry == 2

BaseRelocationBlock(data, o) ==
  [virtual_address |-> Get32(data, o), size_of_block |-> Get32(data, o + 4)]

\* ( entry.offset >> 12 ) & 0xF and entry.offset & 0xFFF of a 16-bit entry.
RelocationEntry(value) ==
  [type |-> (value \div 4096) % 16, offset |-> value % 4096]

\* The for loop of lines 235-239: entry i is read at current_offset + 8 + 2 i
\* while i < entry_count; the first read that fails ends the call.  (The
\* reserve of line 233 is not modelled: with an entry_count near 2^31 it may
\* fail for want of memory before the reads do.)
RECURSIVE relocation_entries(_, _, _, _, _)
relocation_entries(self, current_offset, entry_count, i, entries) ==
  IF ~lt_u32(u32(i), entry_count) THEN Ok(entries)
  ELSE LET r == read_struct(self.buffer_,
                            add_u64(add_u64(current_offset, u64(8)),
                                    u64(i * sizeof_BaseRelocationEntry)),
                            sizeof_BaseRelocationEntry)
       IN IF ~IsOk(r) THEN r
          ELSE relocation_entries(self, current_offset, entry_count, i + 1,
                 Append(entries, RelocationEntry(Uint16(self.buffer_, r.value))))

\* The while loop of lines 229-242.
RECURSIVE relocation_blocks(_, _, _, _)
relocation_blocks(self, current_offset, directory_end, result) ==
  IF ~lt_u64(current_offset, directory_end) THEN Ok(result)
  ELSE LET r == read_struct(self.buffer_, current_offset, sizeof_BaseRelocationBlock)
       IN IF ~IsOk(r) THEN r
          ELSE LET block == BaseRelocationBlock(self.buffer_, r.value)
                   entry_count == div_small(sub_u32(block.size_of_block, u32(8)), 2)
                   entries == relocation_entries(self, current_offset, entry_count,
                                                 0, <<>>)
               IN IF ~IsOk(entries) THEN entries
                  ELSE relocation_blocks(self,
                         add_u64(current_offset, to_u64(block.size_of_block)),
                         directory_end,
                         Append(result, [virtual_address |-> block.virtual_address,
                                         entries |-> entries.value]))

\* Parser::get_relocation_directory.
get_relocation_directory(self) ==
  LET reloc_dir == self.pe_info_.data_directories[6]
  IN IF IsZero(reloc_dir.virtual_address) THEN Ok(<<>>)
     ELSE LET offset == rva_to_offset(self, reloc_dir.virtual_address)
          IN IF ~IsOk(offset) THEN offset
             ELSE relocation_blocks(self, offset.value,
                                    add_u64(offset.value, to_u64(reloc_dir.size)), <<>>)

-----------------------------------------------------------------------------
(* The exception directory and chained unwind infos.                       *)

sizeof_RuntimeFunction == 12
sizeof_UnwindInfo == 6
sizeof_UnwindCode == 2
offsetof_unwind_code == 4

RuntimeFunction(data, o) ==
  [begin_address |-> Get32(data, o),
   end_address |-> Get32(data, o + 4),
   unwind_info_address |-> Get32(data, o + 8)]

\* UNWIND_INFO: version (3 bits) and flags (5 bits) share the first byte.
UnwindInfo(data, o) ==
  [version |-> Byte(data, o) % 8,
   flags |-> Byte(data, o) \div 8,
   size_of_prolog |-> Byte(data, o + 1),
   count_of_codes |-> Byte(data, o + 2)]

\* read_struct<UnwindInfo>( buffer_, rva_to_offset( rva ) ).  (Here and below,
\* CHOOSE v \in { e(x) : x \in {d} } : TRUE is e(d) with d evaluated once.)
read_unwind_info(self, rva) ==
  CHOOSE result \in
    { IF ~IsOk(offset) THEN offset
      ELSE LET r == read_struct(self.buffer_, offset.value, sizeof_UnwindInfo)
           IN IF ~IsOk(r) THEN r ELSE Ok(UnwindInfo(self.buffer_, r.value)) :
      offset \in {rva_to_offset(self, rva)} } : TRUE

\* Lines 256-265: the RuntimeFunction that follows the unwind codes, the count
\* of codes rounded up to even.
read_chained_function(self, func, unwind_info) ==
  LET index == IF unwind_info.count_of_codes % 2 # 0
               THEN unwind_info.count_of_codes + 1 ELSE unwind_info.count_of_codes
  IN CHOOSE result \in
       { IF ~IsOk(offset) THEN offset
         ELSE LET chain_offset ==
                    add_u64(add_u64(offset.value, u64(offsetof_unwind_code)),
                            u64(index * sizeof_UnwindCode))
                  r == read_struct(self.buffer_, chain_offset, sizeof_RuntimeFunction)
              IN IF ~IsOk(r) THEN r ELSE Ok(RuntimeFunction(self.buffer_, r.value)) :
         offset \in {rva_to_offset(self, func.unwind_info_address)} } : TRUE

\* A resolution that forgets the function it was given when its chain cannot
\* be read.
resolve_chained_function_forgetful(self, func) ==
  LET none == [begin_address |-> u32(0), end_address |-> u32(0),
               unwind_info_address |-> u32(0)]
  IN IF IsZero(func.unwind_info_address) THEN [call |-> FALSE, func |-> func]
     ELSE CHOOSE step \in
       { IF ~IsOk(unwind_info) THEN [call |-> FALSE, func |-> none]
         ELSE IF (unwind_info.value.flags \div 4) % 2 = 0
              THEN [call |-> FALSE, func |-> func]
         ELSE CHOOSE chained \in
                { IF ~IsOk(chain_func) THEN [call |-> FALSE, func |-> none]
                  ELSE [call |-> TRUE, func |-> chain_func.value] :
                  chain_func \in {read_chained_function(self, func, unwind_info.value)} } :
                TRUE :
         unwind_info \in {read_unwind_info(self, func.unwind_info_address)} } : TRUE

\* One activation of Parser::resolve_chained_function up to its return or its
\* recursive call: [call |-> TRUE, func |-> chain_func] for the call of line
\* 266, [call |-> FALSE, func |-> func] for a return (lines 248, 270, 273).
\* Whatever the try block throws is caught and func is returned.
resolve_chained_function(self, func) ==
  IF IsZero(func.unwind_info_address) THEN [call |-> FALSE, func |-> func]
  ELSE CHOOSE step \in
    { IF ~IsOk(unwind_info) THEN [call |-> FALSE, func |-> func]
      ELSE IF (unwind_info.value.flags \div 4) % 2 = 0
           THEN [call |-> FALSE, func |-> func]
      ELSE CHOOSE chained \in
             { IF ~IsOk(chain_func) THEN [call |-> FALSE, func |-> func]
               ELSE [call |-> TRUE, func |-> chain_func.value] :
               chain_func \in {read_chained_function(self, func, unwind_info.value)} } :
             TRUE :
      unwind_info \in {read_unwind_info(self, func.unwind_info_address)} } : TRUE

\* Lines 292-301: the terminal unwind info, absent when it cannot be read.
terminal_unwind_info(self, resolved_func) ==
  IF IsZero(resolved_func.unwind_info_address) THEN <<>>
  ELSE LET unwind_info == read_unwind_info(self, resolved_func.unwind_info_address)
       IN IF IsOk(unwind_info) THEN <<unwind_info.value>> ELSE <<>>

-----------------------------------------------------------------------------
(* The TLS directory.                                                      *)

sizeof_TlsDirectory64 == 40

TlsDirectory64(data, o) ==
  [start_address_of_raw_data |-> Get64(data, o),
   end_address_of_raw_data |-> Get64(data, o + 8),
   address_of_index |-> Get64(data, o + 16),
   address_of_callbacks |-> Get64(data, o + 24),
   size_of_zero_fill |-> Get32(data, o + 32),
   characteristics |-> Get32(data, o + 36)]

\* The for loop of lines 322-327: 64-bit values up to the first zero.
RECURSIVE tls_callbacks(_, _, _)
tls_callbacks(self, current_offset, callbacks) ==
  LET r == read_struct(self.buffer_, current_offset, 8)
  IN IF ~IsOk(r) THEN r
     ELSE LET callback == Uint64(self.buffer_, r.value)
          IN IF IsZero(callback) THEN Ok(callbacks)
             ELSE tls_callbacks(self, add_u64(current_offset, u64(8)),
                                Append(callbacks, callback))

\* Parser::get_tls_directory; `return {}` is a zeroed directory, no callbacks.
get_tls_directory(self) ==
  LET tls_dir == self.pe_info_.data_directories[10]
      offset == rva_to_offset(self, tls_dir.virtual_address)
      r == read_struct(self.buffer_, offset.value, sizeof_TlsDirectory64)
      tls == TlsDirectory64(self.buffer_, r.value)
      callback_offset ==
        rva_to_offset(self, <<tls.address_of_callbacks[1], tls.address_of_callbacks[2]>>)
      callbacks == tls_callbacks(self, callback_offset.value, <<>>)
  IN IF IsZero(tls_dir.virtual_address)
     THEN Ok([directory |-> TlsDirectory64([size |-> 0, mem |-> <<>>], 0),
              callbacks |-> <<>>])
     ELSE IF ~IsOk(offset) THEN offset
     ELSE IF ~IsOk(r) THEN r
     ELSE IF IsZero(tls.address_of_callbacks)
          THEN Ok([directory |-> tls, callbacks |-> <<>>])
     ELSE IF ~IsOk(callback_offset) THEN callback_offset
     ELSE IF ~IsOk(callbacks) THEN callbacks
     ELSE Ok([directory |-> tls, callbacks |-> callbacks.value])

-----------------------------------------------------------------------------
(* The debug directory, the PDB path and the symbol URL.                   *)

sizeof_DebugDirectory == 28

DebugDirectory(data, o) ==
  [characteristics |-> Get32(data, o),
   time_date_stamp |-> Get32(data, o + 4),
   type_ |-> Get32(data, o + 12),
   size_of_data |-> Get32(data, o + 16),
   address_of_raw_data |-> Get32(data, o + 20),
   pointer_to_raw_data |-> Get32(data, o + 24)]

\* The loop of lines 343-355; the payload copy is not guarded.
RECURSIVE debug_entries(_, _, _, _, _)
debug_entries(self, offset, entry_count, i, result) ==
  IF ~lt_u32(u32(i), entry_count) THEN Ok(result)
  ELSE LET r == read_struct(self.buffer_,
                            add_u64(offset, u64(i * sizeof_DebugDirectory)),
                            sizeof_DebugDirectory)
           entry == DebugDirectory(self.buffer_, r.value)
           debug_data == copy_range(self.buffer_, to_u64(entry.pointer_to_raw_data),
                                    to_u64(entry.size_of_data))
       IN IF ~IsOk(r) THEN r
          ELSE IF IsZero(entry.pointer_to_raw_data) \/ IsZero(entry.size_of_data)
               THEN debug_entries(self, offset, entry_count, i + 1,
                                  Append(result, [entry |-> entry, data |-> <<>>]))
          ELSE IF ~IsOk(debug_data) THEN debug_data
          ELSE debug_entries(self, offset, entry_count, i + 1,
                 Append(result, [entry |-> entry, data |-> <<debug_data.value>>]))

\* Parser::get_debug_directory.
get_debug_directory(self) ==
  LET debug_dir == self.pe_info_.data_directories[7]
      offset == rva_to_offset(self, debug_dir.virtual_address)
  IN IF IsZero(debug_dir.virtual_address) THEN Ok(<<>>)
     ELSE IF ~IsOk(offset) THEN offset
     ELSE debug_entries(self, offset.value,
                        div_small(debug_dir.size, sizeof_DebugDirectory), 0, <<>>)

IMAGE_DEBUG_TYPE_CODEVIEW == <<2, 0>>
RSDS == <<82, 83, 68, 83>>
NB10 == <<78, 66, 49, 48>>
sizeof_CV_INFO_PDB70 == 25
sizeof_CV_INFO_PDB20 == 17

\* std::find( first, end, 0 ) over a payload: the index found, data.size for end.
RECURSIVE find_zero(_, _)
find_zero(data, o) ==
  IF o >= data.size \/ Byte(data, o) = 0 THEN o ELSE find_zero(data, o + 1)

\* The path of one CodeView payload in get_pdb_path (lines 439-464), <<>> when
\* the loop goes on to the next record.
codeview_path(data) ==
  LET path_offset == IF GetBytes(data, 0, 4) = RSDS THEN 24 ELSE 16
      path_end == find_zero(data, path_offset)
  IN IF GetBytes(data, 0, 4) \notin {RSDS, NB10} THEN <<>>
     ELSE IF data.size < path_offset THEN <<>>
     ELSE IF path_end = data.size THEN <<>>
     ELSE <<GetBytes(data, path_offset, path_end - path_offset)>>

RECURSIVE pdb_path_scan(_, _)
pdb_path_scan(debug_data, k) ==
  IF k > Len(debug_data) THEN <<>>
  ELSE LET entry == debug_data[k].entry
           data == debug_data[k].data
       IN IF entry.type_ # IMAGE_DEBUG_TYPE_CODEVIEW THEN pdb_path_scan(debug_data, k + 1)
          ELSE IF data = <<>> THEN pdb_path_scan(debug_data, k + 1)
          ELSE IF data[1].size < 4 THEN pdb_path_scan(debug_data, k + 1)
          ELSE IF codeview_path(data[1]) # <<>> THEN codeview_path(data[1])
          ELSE pdb_path_scan(debug_data, k + 1)

\* Parser::get_pdb_path: the optional path, or what get_debug_directory threw.
get_pdb_path(self) ==
  LET debug_data == get_debug_directory(self)
  IN IF ~IsOk(debug_data) THEN debug_data ELSE Ok(pdb_path_scan(debug_data.value, 1))

\* pdb_name.substr( pdb_name.find_last_of( "\\/" ) + 1 ).
RECURSIVE find_last_of_separator(_, _)
find_last_of_separator(name, i) ==
  IF i = 0 THEN 0
  ELSE IF name[i] \in {92, 47} THEN i ELSE find_last_of_separator(name, i - 1)
basename(name) == SubSeq(name, find_last_of_separator(name, Len(name)) + 1, Len(name))

\* %X: upper-case hexadecimal digits, and {} of an unsigned: decimal digits.
HexDigit(d) == IF d < 10 THEN 48 + d ELSE 55 + d
Hex8(b) == <<HexDigit(b \div 16), HexDigit(b % 16)>>
Hex16(x) == Hex8(x \div 256) \o Hex8(x % 256)
Hex32(x) == Hex16(x[2]) \o Hex16(x[1])
RECURSIVE Decimal(_)
Decimal(x) ==
  IF lt_u32(x, u32(10)) THEN <<48 + x[1]>>
  ELSE Decimal(div_small(x, 10)) \o <<48 + DivRem(x, 10, 1)>>

SymbolServer == "https://msdl.microsoft.com/download/symbols/"
\* std::format( "<SymbolServer>{}/{}{}/{}", pdb_filename, guid_upper, age, pdb_filename ).
format_url(pdb_filename, guid_upper, age) ==
  [server |-> SymbolServer,
   path |-> pdb_filename \o <<47>> \o guid_upper \o Decimal(age) \o <<47>> \o pdb_filename]

\* The URL of one CodeView payload in get_pdb_url (lines 482-540), <<>> when the
\* loop goes on to the next record.
codeview_url(data) ==
  LET signature == Get32(data, 0)
      rsds == signature = <<\h5352, \h5344>>
      name_offset == IF rsds THEN sizeof_CV_INFO_PDB70 - 1 ELSE sizeof_CV_INFO_PDB20 - 1
      name_end == find_zero(data, name_offset)
      pdb_filename == basename(GetBytes(data, name_offset, name_end - name_offset))
      guid_70 == Hex32(Get32(data, 4)) \o Hex16(Get16(data, 8)) \o Hex16(Get16(data, 10))
                 \o Hex8(Byte(data, 12)) \o Hex8(Byte(data, 13)) \o Hex8(Byte(data, 14))
                 \o Hex8(Byte(data, 15)) \o Hex8(Byte(data, 16)) \o Hex8(Byte(data, 17))
                 \o Hex8(Byte(data, 18)) \o Hex8(Byte(data, 19))
  IN IF ~rsds /\ signature # <<\h424E, \h3031>> THEN <<>>
     ELSE IF data.size < name_offset + 1 THEN <<>>
     ELSE IF name_end = data.size THEN <<>>
     ELSE IF rsds THEN <<format_url(pdb_filename, guid_70, Get32(data, 20))>>
     ELSE <<format_url(pdb_filename, Hex32(Get32(data, 8)), Get32(data, 12))>>

RECURSIVE pdb_url_scan(_, _)
pdb_url_scan(debug_data, k) ==
  IF k > Len(debug_data) THEN <<>>
  ELSE LET entry == debug_data[k].entry
           data_opt == debug_data[k].data
       IN IF entry.type_ # IMAGE_DEBUG_TYPE_CODEVIEW \/ data_opt = <<>>
          THEN pdb_url_scan(debug_data, k + 1)
          ELSE IF data_opt[1].size < 4 THEN pdb_url_scan(debug_data, k + 1)
          ELSE IF codeview_url(data_opt[1]) # <<>> THEN codeview_url(data_opt[1])
          ELSE pdb_url_scan(debug_data, k + 1)

\* Parser::get_pdb_url.
get_pdb_url(self) ==
  LET debug_data == get_debug_directory(self)
  IN IF ~IsOk(debug_data) THEN debug_data ELSE Ok(pdb_url_scan(debug_data.value, 1))

-----------------------------------------------------------------------------
(* The export directory.                                                   *)

sizeof_ExportDirectory == 40

ExportDirectory(data, o) ==
  [characteristics |-> Get32(data, o),
   name_rva |-> Get32(data, o + 12),
   base |-> Get32(data, o + 16),
   number_of_functions |-> Get32(data, o + 20),
   number_of_names |-> Get32(data, o + 24),
   address_of_functions |-> Get32(data, o + 28),
   address_of_names |-> Get32(data, o + 32),
   address_of_name_ordinals |-> Get32(data, o + 36)]

\* The string at buffer_.begin() + rva_to_offset( rva ) (lines 370-372, 389-391).
string_at_rva(self, rva) ==
  LET start == rva_to_offset(self, rva)
  IN IF ~IsOk(start) THEN start ELSE string_at(self.buffer_, start.value)

\* The forwarder test against the end of the range only.
is_forwarder_unbounded_below(export_dir, function_rva) ==
  lt_u32(function_rva, add_u32(export_dir.virtual_address, export_dir.size))

\* The forwarder test of lines 395-396: both sides in uint32_t.
is_forwarder(export_dir, function_rva) ==
  /\ ~lt_u32(function_rva, export_dir.virtual_address)
  /\ lt_u32(function_rva, add_u32(export_dir.virtual_address, export_dir.size))

\* The entry built by lines 394-405 from what was read for one name index.
export_entry(self, export_dir, base, name, ordinal, function_rva) ==
  [name |-> name,
   ordinal |-> add_u32(u32(ordinal), base),
   forwarder_ordinal |-> IF is_forwarder(export_dir, function_rva)
                         THEN <<ordinal>> ELSE <<>>,
   address |-> IF IsZero(function_rva) THEN u64(0)
               ELSE add_u64(get_image_base(self), to_u64(function_rva))]

\* The for loop of lines 382-406; t holds the export table and the three
\* offsets.
RECURSIVE export_entries(_, _, _, _)
export_entries(self, t, i, entries) ==
  IF ~lt_u32(u32(i), t.export_table.number_of_names) THEN Ok(entries)
  ELSE LET n == read_struct(self.buffer_, add_u64(t.names_offset, u64(i * 4)), 4)
           o == read_struct(self.buffer_, add_u64(t.ordinals_offset, u64(i * 2)), 2)
           ordinal == Uint16(self.buffer_, o.value)
           f == read_struct(self.buffer_,
                            add_u64(t.functions_offset, u64(ordinal * 4)), 4)
           name_rva == Uint32(self.buffer_, n.value)
           name == IF IsZero(name_rva) THEN Ok(<<>>) ELSE string_at_rva(self, name_rva)
       IN IF ~IsOk(n) THEN n
          ELSE IF ~IsOk(o) THEN o
          ELSE IF ~IsOk(f) THEN f
          ELSE IF ~IsOk(name) THEN name
          ELSE export_entries(self, t, i + 1,
                 Append(entries,
                        export_entry(self, t.export_dir, t.export_table.base, name.value,
                                     ordinal, Uint32(self.buffer_, f.value))))

\* Parser::get_export_directory.
get_export_directory(self) ==
  LET export_dir == self.pe_info_.data_directories[1]
      offset == rva_to_offset(self, export_dir.virtual_address)
      r == read_struct(self.buffer_, offset.value, sizeof_ExportDirectory)
      export_table == ExportDirectory(self.buffer_, r.value)
      dll_name == IF IsZero(export_table.name_rva) THEN Ok(<<>>)
                  ELSE string_at_rva(self, export_table.name_rva)
      functions_offset == rva_to_offset(self, export_table.address_of_functions)
      names_offset == rva_to_offset(self, export_table.address_of_names)
      ordinals_offset == rva_to_offset(self, export_table.address_of_name_ordinals)
      entries == export_entries(self,
                   [export_dir |-> export_dir, export_table |-> export_table,
                    functions_offset |-> functions_offset.value,
                    names_offset |-> names_offset.value,
                    ordinals_offset |-> ordinals_offset.value], 0, <<>>)
  IN IF IsZero(export_dir.virtual_address)
     THEN Ok([directory |-> ExportDirectory([size |-> 0, mem |-> <<>>], 0),
              entries |-> <<>>])
     ELSE IF ~IsOk(offset) THEN offset
     ELSE IF ~IsOk(r) THEN r
     ELSE IF ~IsOk(dll_name) THEN dll_name
     ELSE IF ~IsOk(functions_offset) THEN functions_offset
     ELSE IF ~IsOk(names_offset) THEN names_offset
     ELSE IF ~IsOk(ordinals_offset) THEN ordinals_offset
     ELSE IF ~IsOk(entries) THEN entries
     ELSE Ok([directory |-> export_table, entries |-> entries.value])

-----------------------------------------------------------------------------
(* Image buffers: the bytes handed to the constructor.                     *)

Put8(o, v) == o :> v
Put16(o, v) == (o :> (v % 256)) @@ ((o + 1) :> (v \div 256))
Put32(o, w) == Put16(o, w[1]) @@ Put16(o + 2, w[2])
Put64(o, w) == Put32(o, <<w[1], w[2]>>) @@ Put32(o + 4, <<w[3], w[4]>>)
PutBytes(o, bytes) == [k \in o..(o + Len(bytes) - 1) |-> bytes[k - o + 1]]
Empty == [k \in {} |-> 0]
Image(size, mem) == Span(size, mem)

\* The DOS header, the NT signature, the file header and the optional header's
\* scalar fields, with the NT headers at file offset lfanew.
HeaderBytes(e_magic, lfanew, signature, machine, sections, optional_size, magic, entry, base) ==
  Put16(0, e_magic) @@ Put32(60, u32(lfanew)) @@ Put32(lfanew, signature)
  @@ Put16(lfanew + 4, machine) @@ Put16(lfanew + 6, sections)
  @@ Put16(lfanew + 20, optional_size) @@ Put16(lfanew + 24, magic)
  @@ Put32(lfanew + 40, entry) @@ Put64(lfanew + 48, base)

\* Data directory `index` (0-based) of the optional header at lfanew + 24.
DirectoryBytes(lfanew, index, virtual_address, size) ==
  Put32(lfanew + 136 + 8 * index, virtual_address)
  @@ Put32(lfanew + 140 + 8 * index, size)

\* A section header at file offset o.
SectionBytes(o, name, vsize, va, raw_size, raw, characteristics) ==
  PutBytes(o, name) @@ Put32(o + 8, vsize) @@ Put32(o + 12, va)
  @@ Put32(o + 16, raw_size) @@ Put32(o + 20, raw)
  @@ Put32(o + 36, characteristics)

scn_mem_execute == <<0, \h2000>>
DotText == <<46, 116, 101, 120, 116>>
DotRdata == <<46, 114, 100, 97, 116, 97>>
DiskImageBase == <<0, \h4000, 1, 0>>
DiskEntryPoint == <<\h1010, 0>>
PESignature == <<\h4550, 0>>

\* The headers of a well-formed image: NT headers at 64, the section table at
\* 328, .text (RVA 0x1000, file 0x200) and .rdata (RVA 0x2000, file 0x300).
GoodHeaders ==
  HeaderBytes(\h5A4D, 64, PESignature, \h8664, 2, 240, \h020B,
              DiskEntryPoint, DiskImageBase)
  @@ SectionBytes(328, DotText, u32(\h200), u32(\h1000), u32(\h100), u32(\h200),
                  scn_mem_execute)
  @@ SectionBytes(368, DotRdata, u32(\h200), u32(\h2000), u32(\h100), u32(\h300),
                  <<0, \h4000>>)

\* Header images: every combination of a good or bad value in the four checked
\* fields, cut at lengths that end inside each record parse reads.
HeaderCuts == {40, 66, 80, 300, 360, 400, 1024}
HeaderImages ==
  { Image(size,
          HeaderBytes(e_magic, 64, signature, machine, 2, 240, magic,
                      DiskEntryPoint, DiskImageBase) @@ GoodHeaders) :
      size \in HeaderCuts,
      e_magic \in {\h5A4D, \h5B4D},
      signature \in {PESignature, <<\h4551, 0>>},
      machine \in {\h8664, \h014C},
      magic \in {\h020B, \h010B} }
  \cup
  \* e_lfanew elsewhere, also beyond the buffer and at the top of uint32_t.
  { Image(1024, Put32(60, e_lfanew) @@ GoodHeaders) :
      e_lfanew \in {u32(1020), u32(1021), u32(4096), <<\hFFFC, \hFFFF>>} }
  \cup
  \* Other section counts and optional-header sizes.
  { Image(size,
          HeaderBytes(\h5A4D, 64, PESignature, \h8664, number_of_sections,
                      size_of_optional_header, \h020B, DiskEntryPoint, DiskImageBase)
          @@ GoodHeaders) :
      size \in {408, 1024},
      number_of_sections \in {0, 1, 3},
      size_of_optional_header \in {0, 240, 280} }


-----------------------------------------------------------------------------
(* The state machine.                                                      *)

NoInfo == [section_headers |-> <<>>]
NoCall == [name |-> "none"]
NoResult == [kind |-> "none"]
NoWalk == [stage |-> "idle"]

\* Parser::Parser: pe_info_ = parse(buffer_).  A throw leaves no parser.
Construct ==
  /\ pc = "new"
  /\ LET r == parse(buffer_)
     IN /\ ret' = IF IsOk(r) THEN Ok("constructed") ELSE r
        /\ pe_info_' = IF IsOk(r) THEN r.value ELSE pe_info_
        /\ pc' = IF IsOk(r) THEN "ready" ELSE "failed"
  /\ op' = [name |-> "Parser"]
  /\ UNCHANGED <<buffer_, override_base_address_, override_entry_point_, walk>>

This ==
  Parser(buffer_, pe_info_, override_base_address_, override_entry_point_)

\* What an out-of-bounds read can do: fault, or yield bytes that are not the
\* image's.
Outcomes(r) ==
  IF r.kind = "ub"
  THEN {[kind |-> "ub", offset |-> r.offset, length |-> r.length, outcome |-> o] :
          o \in {"crash", "garbage"}}
  ELSE {r}

\* A call of a const member function: it has a result and writes no member.
Query(name, arg, r) ==
  /\ pc = "ready"
  /\ op' = [name |-> name, arg |-> arg]
  /\ ret' \in Outcomes(r)
  /\ pc' = IF ret'.kind = "ub" /\ ret'.outcome = "crash" THEN "crashed" ELSE "ready"
  /\ UNCHANGED <<buffer_, pe_info_, override_base_address_, override_entry_point_,
                 walk>>

RvaProbes ==
  {u32(0), u32(\h0FFF), u32(\h1000), u32(\h1050), u32(\h1150), u32(\h11FF),
   u32(\h1200), u32(\h12FF), u32(\h2000), u32(\h20FF),
   <<\hF000, \hFFFF>>, <<\hFFFF, \hFFFF>>}
NameProbes == {DotText, DotRdata, <<46, 116>>, <<46, 98, 115, 115>>}
BaseValues == {u64(0), <<0, 1, 0, 0>>, <<\hF000, \hFFFF, \hFFFF, \hFFFF>>}
EntryValues == {u64(0), u64(\h2000), <<\hFFF0, \hFFFF, \hFFFF, \hFFFF>>}
AddressProbes ==
  {u64(\h1000), <<\h1000, \h4000, 1, 0>>, <<\h1100, \h4000, 1, 0>>,
   <<\h1101, \h4000, 1, 0>>, <<\h2080, 1, 0, 0>>, u64(\h0080)}

RvaToOffset ==
  \E rva \in RvaProbes : Query("rva_to_offset", rva, rva_to_offset(This, rva))
GetSectionData ==
  \E name \in NameProbes : Query("get_section_data", name, get_section_data(This, name))
GetTextSectionData ==
  Query("get_text_section_data", <<>>, get_text_section_data(This))
GetExecutableSectionsData ==
  Query("get_executable_sections_data", <<>>, get_executable_sections_data(This))
GetAllSectionsData ==
  Query("get_all_sections_data", <<>>, get_all_sections_data(This))
SectionNameForAddress ==
  \E address \in AddressProbes :
    Query("section_name_for_address", address, section_name_for_address(This, address))
GetImportDirectory == Query("get_import_directory", <<>>, get_import_directory(This))
GetRelocationDirectory ==
  Query("get_relocation_directory", <<>>, get_relocation_directory(This))
GetTlsDirectory == Query("get_tls_directory", <<>>, get_tls_directory(This))
GetDebugDirectory == Query("get_debug_directory", <<>>, get_debug_directory(This))
GetPdbPath == Query("get_pdb_path", <<>>, get_pdb_path(This))
GetPdbUrl == Query("get_pdb_url", <<>>, get_pdb_url(This))
GetExportDirectory == Query("get_export_directory", <<>>, get_export_directory(This))
GetImageBase == Query("get_image_base", <<>>, Ok(get_image_base(This)))
GetEntryPoint == Query("get_entry_point", <<>>, Ok(get_entry_point(This)))

\* A base override that also clears the entry override.
override_base_address_resetting(address) ==
  /\ override_base_address_' = address
  /\ override_entry_point_' = u64(0)
  /\ UNCHANGED <<buffer_, pe_info_, walk>>

\* Parser::override_base_address and Parser::override_entry_point.
override_base_address(address) ==
  /\ override_base_address_' = address
  /\ UNCHANGED <<buffer_, pe_info_, override_entry_point_, walk>>
override_entry_point(address) ==
  /\ override_entry_point_' = address
  /\ UNCHANGED <<buffer_, pe_info_, override_base_address_, walk>>

OverrideBaseAddress ==
  \E address \in BaseValues :
    /\ pc = "ready"
    /\ override_base_address(address)
    /\ op' = [name |-> "override_base_address", arg |-> address]
    /\ ret' = Ok(<<>>)
    /\ pc' = pc
OverrideEntryPoint ==
  \E address \in EntryValues :
    /\ pc = "ready"
    /\ override_entry_point(address)
    /\ op' = [name |-> "override_entry_point", arg |-> address]
    /\ ret' = Ok(<<>>)
    /\ pc' = pc

\* Parser::get_exception_directory, step by step.  The call (lines 277-285):
\* an absent directory returns an empty list, a directory in no section throws.
MaxCallDepth == 4
GetExceptionDirectory ==
  /\ pc = "ready"
  /\ op' = [name |-> "get_exception_directory", arg |-> <<>>]
  /\ LET exception_dir == pe_info_.data_directories[4]
         offset == rva_to_offset(This, exception_dir.virtual_address)
     IN IF IsZero(exception_dir.virtual_address)
        THEN ret' = Ok(<<>>) /\ pc' = "ready" /\ walk' = NoWalk
        ELSE IF ~IsOk(offset)
        THEN ret' = offset /\ pc' = "ready" /\ walk' = NoWalk
        ELSE /\ ret' = NoResult
             /\ pc' = "exceptions"
             /\ walk' = [stage |-> "loop", offset |-> offset.value,
                         entry_count |-> div_small(exception_dir.size,
                                                   sizeof_RuntimeFunction),
                         i |-> 0, func |-> <<>>, depth |-> 0, result |-> <<>>,
                         last_read |-> <<>>]
  /\ UNCHANGED <<buffer_, pe_info_, override_base_address_, override_entry_point_>>

\* The head of the for loop (lines 287-289): return after entry_count entries,
\* else read entry i; a failed read ends the call.
ReadEntry ==
  /\ pc = "exceptions" /\ walk.stage = "loop"
  /\ IF ~lt_u32(u32(walk.i), walk.entry_count)
     THEN ret' = Ok(walk.result) /\ pc' = "ready" /\ walk' = NoWalk
     ELSE LET r == read_struct(buffer_,
                     add_u64(walk.offset, u64(walk.i * sizeof_RuntimeFunction)),
                     sizeof_RuntimeFunction)
          IN IF ~IsOk(r)
             THEN ret' = r /\ pc' = "ready" /\ walk' = NoWalk
             ELSE /\ walk' = [walk EXCEPT !.stage = "resolve",
                                          !.func = RuntimeFunction(buffer_, r.value),
                                          !.last_read = RuntimeFunction(buffer_, r.value),
                                          !.depth = 1]
                  /\ UNCHANGED <<ret, pc>>
  /\ UNCHANGED <<buffer_, pe_info_, override_base_address_, override_entry_point_, op>>

\* One activation of resolve_chained_function (lines 246-274): it returns, and
\* every caller returns the same value, or it calls itself with the chained
\* function.  The depth of the call stack is counted up to MaxCallDepth.
ResolveStep ==
  /\ pc = "exceptions" /\ walk.stage = "resolve"
  /\ LET step == resolve_chained_function(This, walk.func)
     IN walk' = IF step.call
                THEN [walk EXCEPT !.func = step.func, !.last_read = step.func,
                                  !.depth = IF walk.depth < MaxCallDepth
                                            THEN walk.depth + 1 ELSE MaxCallDepth]
                ELSE [walk EXCEPT !.stage = "emit", !.func = step.func, !.depth = 0]
  /\ UNCHANGED <<buffer_, pe_info_, override_base_address_, override_entry_point_,
                 pc, op, ret>>

\* The rest of the loop body (lines 292-303).
EmitEntry ==
  /\ pc = "exceptions" /\ walk.stage = "emit"
  /\ walk' = [walk EXCEPT !.stage = "loop", !.i = walk.i + 1,
                !.result = Append(walk.result,
                             [function |-> walk.func,
                              unwind_info |-> terminal_unwind_info(This, walk.func)])]
  /\ UNCHANGED <<buffer_, pe_info_, override_base_address_, override_entry_point_,
                 pc, op, ret>>

\* The recursion has no bound of its own: a call stack that is finite gives
\* out at some depth, here any time from MaxCallDepth on.
StackOverflow ==
  /\ pc = "exceptions" /\ walk.stage = "resolve" /\ walk.depth = MaxCallDepth
  /\ pc' = "crashed"
  /\ ret' = [kind |-> "stack_overflow"]
  /\ UNCHANGED <<buffer_, pe_info_, override_base_address_, override_entry_point_,
                 op, walk>>

ExceptionWalk == ReadEntry \/ ResolveStep \/ EmitEntry

Next ==
  \/ Construct
  \/ RvaToOffset
  \/ GetSectionData
  \/ GetTextSectionData
  \/ GetExecutableSectionsData
  \/ GetAllSectionsData
  \/ SectionNameForAddress
  \/ GetImageBase
  \/ GetImportDirectory
  \/ GetRelocationDirectory
  \/ GetExceptionDirectory
  \/ ReadEntry
  \/ ResolveStep
  \/ EmitEntry
  \/ StackOverflow
  \/ GetTlsDirectory
  \/ GetDebugDirectory
  \/ GetPdbPath
  \/ GetPdbUrl
  \/ GetExportDirectory
  \/ GetEntryPoint
  \/ OverrideBaseAddress
  \/ OverrideEntryPoint

\* Section tables for the address mapper: ordered pairs of sections that
\* overlap, end beyond 2^32, end at 2^32, are empty, or map to a raw pointer so
\* high that rva - va + raw wraps.
MapperSections ==
  { [va |-> u32(\h1000), vsize |-> u32(\h200), raw |-> u32(\h200)],
    [va |-> u32(\h1100), vsize |-> u32(\h200), raw |-> u32(\h380)],
    [va |-> <<\hF000, \hFFFF>>, vsize |-> u32(\h2000), raw |-> u32(\h300)],
    [va |-> <<\hF000, \hFFFF>>, vsize |-> u32(\h1000), raw |-> u32(\h300)],
    [va |-> u32(\h2000), vsize |-> u32(\h200), raw |-> <<\hFF80, \hFFFF>>],
    [va |-> u32(\h1200), vsize |-> u32(0), raw |-> u32(\h200)] }
MapperImages ==
  { Image(1024,
          SectionBytes(328, DotText, a.vsize, a.va, u32(\h100), a.raw, scn_mem_execute)
          @@ SectionBytes(368, DotRdata, b.vsize, b.va, u32(\h100), b.raw, <<0, \h4000>>)
          @@ GoodHeaders) :
      a \in MapperSections, b \in MapperSections }

InitMapper ==
  /\ buffer_ \in MapperImages
  /\ pe_info_ = NoInfo
  /\ override_base_address_ = u64(0)
  /\ override_entry_point_ = u64(0)
  /\ pc = "new"
  /\ op = NoCall
  /\ ret = NoResult
  /\ walk = NoWalk
NextMapper == Construct \/ RvaToOffset
SpecMapper == InitMapper /\ [][NextMapper]_vars

\* Import directories in .rdata (RVA 0x2000, file 0x300): one descriptor at
\* 0x2000 (a second, when present, at 0x2014), the lookup table of the first at
\* 0x2060, its DLL name at 0x2040, a hint/name record at 0x2050.
ImportDescriptorBytes(o, lookup_rva, name_rva, iat_rva) ==
  Put32(o, lookup_rva) @@ Put32(o + 12, name_rva) @@ Put32(o + 16, iat_rva)
LookupBytes(o, slots) ==
  [k \in o..(o + 8 * Len(slots) - 1) |->
     LET w == slots[(k - o) \div 8 + 1][((k - o) % 8) \div 2 + 1]
     IN IF (k - o) % 2 = 0 THEN w % 256 ELSE w \div 256]
ADll == <<97, 46, 100, 108, 108>>
FnName == <<70, 110>>
ImportStrings == PutBytes(\h340, ADll) @@ Put16(\h350, 7) @@ PutBytes(\h352, FnName)

\* Lookup slots: a name import, the same with bits 31..62 set, the ordinal
\* import 0x8000000000000042, an ordinal import with other bits set, a name
\* import whose hint/name RVA is in no section, and one whose hint/name record
\* lies at the very end of the buffer.
LookupSlots ==
  { <<\h2050, 0, 0, 0>>, <<\h2050, \h8000, \hFFFF, \h7FFF>>, <<\h0042, 0, 0, \h8000>>,
    <<\h0007, \h1234, 0, \h8000>>, <<\h5000, 0, 0, 0>>, <<\h20FD, 0, 0, 0>> }
MaxLookupSlots == 2
LookupTables ==
  UNION { [1..n -> LookupSlots] : n \in 0..MaxLookupSlots }
ImportImage(slots, iat_rva) ==
  Image(1024,
        DirectoryBytes(64, 1, u32(\h2000), u32(40))
        @@ ImportDescriptorBytes(\h300, u32(\h2060), u32(\h2040), iat_rva)
        @@ LookupBytes(\h360, slots) @@ ImportStrings @@ PutBytes(\h3FF, <<88>>)
        @@ GoodHeaders)
ImportImages ==
  { ImportImage(slots, iat_rva) :
      slots \in LookupTables, iat_rva \in {u32(\h3000), <<\hFFF8, \hFFFF>>} }
  \cup
  \* Two descriptors sharing a lookup table; a DLL name or a lookup table in no
  \* section; a lookup table with no zero slot before the end of the buffer; a
  \* directory in no section.
  { Image(1024,
          DirectoryBytes(64, 1, directory_rva, u32(40))
          @@ ImportDescriptorBytes(\h300, u32(\h2060), u32(\h2040), u32(\h3000))
          @@ ImportDescriptorBytes(\h314, lookup_rva, name_rva, u32(\h3010))
          @@ LookupBytes(\h360, <<<<\h2050, 0, 0, 0>>, <<\h0042, 0, 0, \h8000>>>>)
          @@ LookupBytes(\h3F8, <<<<\h0001, 0, 0, \h8000>>>>)
          @@ ImportStrings @@ GoodHeaders) :
      directory_rva \in {u32(\h2000), u32(\h5000)},
      lookup_rva \in {u32(\h2060), u32(\h5000), u32(\h20F8), u32(\h2068)},
      name_rva \in {u32(\h2040), u32(\h5000), u32(\h2100), u32(\h2101)} }
  \cup
  \* A descriptor that ends with the buffer: no terminator follows it.
  { Image(1024,
          DirectoryBytes(64, 1, u32(\h20EC), u32(20))
          @@ ImportDescriptorBytes(\h3EC, u32(\h2060), u32(\h2040), u32(\h3000))
          @@ LookupBytes(\h360, <<<<\h2050, 0, 0, 0>>>>)
          @@ ImportStrings @@ GoodHeaders) }

InitImports ==
  /\ buffer_ \in ImportImages
  /\ pe_info_ = NoInfo
  /\ override_base_address_ = u64(0)
  /\ override_entry_point_ = u64(0)
  /\ pc = "new"
  /\ op = NoCall
  /\ ret = NoResult
  /\ walk = NoWalk
NextImports == Construct \/ GetImportDirectory
SpecImports == InitImports /\ [][NextImports]_vars

\* Base relocation directories at RVA 0x2058 (file 0x358): a block at 0x358,
\* a second one where the first ends, 16-bit entries everywhere after them.
RelocationBlockBytes(o, va, size_of_block) == Put32(o, va) @@ Put32(o + 4, u32(size_of_block))
RelocationFill ==
  [k \in \h358..\h39F |-> IF k % 2 = 0 THEN \h23 + (k % 16) ELSE \hA1 - (k % 32)]
RelocationImage(directory_size, first, second) ==
  Image(1024,
        DirectoryBytes(64, 5, u32(\h2058), u32(directory_size))
        @@ RelocationBlockBytes(\h358, u32(\h1000), first)
        @@ RelocationBlockBytes(\h358 + first, u32(\h2000), second)
        @@ RelocationFill @@ GoodHeaders)
RelocationImages ==
  { RelocationImage(directory_size, first, second) :
      directory_size \in {0, 8, 12, 20, 24},
      first \in {0, 6, 8, 9, 12},
      second \in {8, 12, 16} }

InitRelocations ==
  /\ buffer_ \in RelocationImages
  /\ pe_info_ = NoInfo
  /\ override_base_address_ = u64(0)
  /\ override_entry_point_ = u64(0)
  /\ pc = "new"
  /\ op = NoCall
  /\ ret = NoResult
  /\ walk = NoWalk
NextRelocations == Construct \/ GetRelocationDirectory
SpecRelocations == InitRelocations /\ [][NextRelocations]_vars

\* Exception directories: the table at RVA 0x2070 (file 0x370) and unwind infos
\* A (0x2088, chained to B), B (0x20A0, not chained), C (0x20A8, chained to
\* itself), D (0x20B8, chained to a function whose unwind info is in no
\* section), F (0x20C8) and G (0x20D8) chained to each other, E (0x20F8, chained,
\* its chained function beyond the end of the buffer); 0x20FB is an unwind info
\* that ends beyond the buffer, 0x5000 is in no section.
RuntimeFunctionBytes(o, begin, unwind) ==
  Put32(o, u32(begin)) @@ Put32(o + 4, u32(begin + 64)) @@ Put32(o + 8, u32(unwind))
ChainedUnwindBytes(o, count_of_codes, begin, unwind) ==
  Put8(o, \h21) @@ Put8(o + 2, count_of_codes)
  @@ RuntimeFunctionBytes(o + 4 + 2 * (count_of_codes + (count_of_codes % 2)), begin, unwind)
UnwindInfos ==
  ChainedUnwindBytes(\h388, 1, \h1100, \h20A0)
  @@ Put8(\h3A0, \h01) @@ Put8(\h3A1, 4)
  @@ ChainedUnwindBytes(\h3A8, 0, \h1200, \h20A8)
  @@ ChainedUnwindBytes(\h3B8, 0, \h1300, \h5000)
  @@ ChainedUnwindBytes(\h3C8, 0, \h1400, \h20D8)
  @@ ChainedUnwindBytes(\h3D8, 0, \h1500, \h20C8)
  @@ Put8(\h3F8, \h21)
FirstUnwinds ==
  {0, \h2088, \h20A0, \h20A8, \h20B8, \h20C8, \h20F8, \h20FB, \h5000}
SecondUnwinds == {\h20A0, \h2088, \h20FB}
ExceptionImage(directory_size, first, second) ==
  Image(1024,
        DirectoryBytes(64, 3, u32(\h2070), u32(directory_size))
        @@ RuntimeFunctionBytes(\h370, \h1000, first)
        @@ RuntimeFunctionBytes(\h37C, \h1040, second)
        @@ UnwindInfos @@ GoodHeaders)
ExceptionImages ==
  { ExceptionImage(directory_size, first, second) :
      directory_size \in {12, 24, 30}, first \in FirstUnwinds, second \in SecondUnwinds }
  \cup
  \* A table that runs beyond the buffer, a directory in no section, no entry.
  { Image(1024,
          DirectoryBytes(64, 3, directory_rva, directory_size)
          @@ RuntimeFunctionBytes(\h3F0, \h1000, \h20A0)
          @@ UnwindInfos @@ GoodHeaders) :
      directory_rva \in {u32(\h20F0), u32(\h5000), u32(\h2070)},
      directory_size \in {u32(0), u32(12), u32(24), <<\hFFFF, \hFFFF>>} }

InitExceptions ==
  /\ buffer_ \in ExceptionImages
  /\ pe_info_ = NoInfo
  /\ override_base_address_ = u64(0)
  /\ override_entry_point_ = u64(0)
  /\ pc = "new"
  /\ op = NoCall
  /\ ret = NoResult
  /\ walk = NoWalk
NextExceptions ==
  \/ Construct
  \/ GetExceptionDirectory
  \/ ReadEntry
  \/ ResolveStep
  \/ EmitEntry
  \/ StackOverflow
\* A call that has begun runs on: the parser is synchronous.
SpecExceptions ==
  InitExceptions /\ [][NextExceptions]_vars /\ WF_vars(ExceptionWalk)

\* Export directories at RVA 0x2000 (file 0x300): the library name at 0x2028,
\* four function RVAs at 0x2030 (code, the directory's first byte, the last
\* byte of a directory of 0x60 bytes, and `last`), name RVAs at 0x2040, name
\* ordinals at 0x2050, the names "f" and "g" at 0x2058 and 0x205A.
ExportTableBytes(o, name_rva, base, names, functions_rva, names_rva, ordinals_rva) ==
  Put32(o + 12, name_rva) @@ Put32(o + 16, base) @@ Put32(o + 20, u32(4))
  @@ Put32(o + 24, names) @@ Put32(o + 28, functions_rva) @@ Put32(o + 32, names_rva)
  @@ Put32(o + 36, ordinals_rva)
ExportArrays(last, second_name, ordinals) ==
  PutBytes(\h328, ADll)
  @@ Put32(\h330, u32(\h1010)) @@ Put32(\h334, u32(\h2000))
  @@ Put32(\h338, u32(\h205F)) @@ Put32(\h33C, last)
  @@ Put32(\h340, u32(\h2058)) @@ Put32(\h344, second_name)
  @@ Put16(\h350, ordinals[1]) @@ Put16(\h352, ordinals[2])
  @@ PutBytes(\h358, <<102>>) @@ PutBytes(\h35A, <<103>>)
ExportImage(size, base, names, last, ordinals) ==
  Image(1024,
        DirectoryBytes(64, 0, u32(\h2000), size)
        @@ ExportTableBytes(\h300, u32(\h2028), base, names,
                            u32(\h2030), u32(\h2040), u32(\h2050))
        @@ ExportArrays(last, u32(\h205A), ordinals) @@ GoodHeaders)
\* A table with one RVA or one name ordinal replaced.
FaultyExportImage(directory_rva, name_rva, functions_rva, second_name, ordinals) ==
  Image(1024,
        DirectoryBytes(64, 0, directory_rva, u32(\h60))
        @@ ExportTableBytes(\h300, name_rva, u32(1), u32(2),
                            functions_rva, u32(\h2040), u32(\h2050))
        @@ ExportArrays(u32(0), second_name, ordinals) @@ GoodHeaders)
ExportImages ==
  { ExportImage(size, base, names, last, ordinals) :
      size \in {u32(\h60), <<\hF000, \hFFFF>>},
      base \in {u32(1), <<\hFFFF, \hFFFF>>},
      names \in {u32(0), u32(1), u32(2), u32(3), <<\hFFFF, \hFFFF>>},
      last \in {u32(0), u32(\h2060), u32(\h1FFF)},
      ordinals \in {<<0, 1>>, <<1, 2>>, <<2, 3>>, <<3, 3>>, <<3, 0>>} }
  \cup
  { FaultyExportImage(u32(\h2000), u32(\h2028), u32(\h2030), second_name, <<0, 1>>) :
      second_name \in {u32(0), u32(\h5000), u32(\h2100), u32(\h2101)} }
  \cup
  { FaultyExportImage(directory_rva, name_rva, functions_rva, u32(\h205A), ordinals) :
      directory_rva \in {u32(\h2000), u32(\h5000), u32(\h20E0)},
      name_rva \in {u32(0), u32(\h5000), u32(\h2101)},
      functions_rva \in {u32(\h2030), u32(\h5000)},
      ordinals \in {<<0, 1>>, <<0, \h100>>} }

InitExports ==
  /\ buffer_ \in ExportImages
  /\ pe_info_ = NoInfo
  /\ override_base_address_ = u64(0)
  /\ override_entry_point_ = u64(0)
  /\ pc = "new"
  /\ op = NoCall
  /\ ret = NoResult
  /\ walk = NoWalk
NextExports == Construct \/ GetExportDirectory \/ OverrideBaseAddress
SpecExports == InitExports /\ [][NextExports]_vars

\* Strings at the end of the buffer.  The last two bytes of the file (0x3FE,
\* 0x3FF) are `tail`: "YX" leaves no zero byte before the end, "Y" followed by
\* a zero byte is a string that ends with the buffer, and a zero byte followed
\* by "X" has an empty string before an unterminated one.  A DLL name, a
\* hint/name record, a library name or an export name lies at the usual place
\* or in the tail (RVA 0x20FE, 0x20FF; 0x20FC and 0x20FD for the hint).
BufferTails == { <<89, 88>>, <<89, 0>>, <<0, 88>> }
TailImportImage(tail, name_rva, slot) ==
  Image(1024,
        DirectoryBytes(64, 1, u32(\h2000), u32(40))
        @@ ImportDescriptorBytes(\h300, u32(\h2060), name_rva, u32(\h3000))
        @@ LookupBytes(\h360, <<slot>>) @@ ImportStrings @@ PutBytes(\h3FE, tail)
        @@ GoodHeaders)
TailExportImage(tail, name_rva, second_name) ==
  Image(1024,
        DirectoryBytes(64, 0, u32(\h2000), u32(\h60))
        @@ ExportTableBytes(\h300, name_rva, u32(1), u32(2),
                            u32(\h2030), u32(\h2040), u32(\h2050))
        @@ ExportArrays(u32(0), second_name, <<0, 1>>) @@ PutBytes(\h3FE, tail)
        @@ GoodHeaders)
StringImages ==
  { TailImportImage(tail, name_rva, slot) :
      tail \in BufferTails,
      name_rva \in {u32(\h2040), u32(\h20FE), u32(\h20FF)},
      slot \in { <<\h2050, 0, 0, 0>>, <<\h20FC, 0, 0, 0>>, <<\h20FD, 0, 0, 0>>,
                 <<\h0042, 0, 0, \h8000>> } }
  \cup
  { TailExportImage(tail, name_rva, second_name) :
      tail \in BufferTails,
      name_rva \in {u32(0), u32(\h2028), u32(\h20FE), u32(\h20FF)},
      second_name \in {u32(0), u32(\h205A), u32(\h20FE), u32(\h20FF)} }

InitStrings ==
  /\ buffer_ \in StringImages
  /\ pe_info_ = NoInfo
  /\ override_base_address_ = u64(0)
  /\ override_entry_point_ = u64(0)
  /\ pc = "new"
  /\ op = NoCall
  /\ ret = NoResult
  /\ walk = NoWalk
NextStrings == Construct \/ GetImportDirectory \/ GetExportDirectory
SpecStrings == InitStrings /\ [][NextStrings]_vars

\* Debug and TLS directories.  The debug directory at RVA 0x20C0 (file 0x3C0)
\* has a first entry (type, pointer, size given) and a second entry for the
\* RSDS record at file 0x200; an NB10 record lies at file 0x240.  The TLS
\* directory lies at file 0x380, callbacks at RVA 0x20A8 and, with no zero
\* after them, at RVA 0x20F8.
RsdsRecord ==
  PutBytes(\h200, RSDS) @@ Put32(\h204, <<\h3344, \h1122>>) @@ Put16(\h208, \h5566)
  @@ Put16(\h20A, \h7788)
  @@ PutBytes(\h20C, <<\h99, \hAA, \hBB, \hCC, \hDD, \hEE, \hFF, \h00>>)
  @@ Put32(\h214, u32(\h1A))
  @@ PutBytes(\h218, <<99, 58, 92, 120, 92, 102, 111, 111, 46, 112, 100, 98>>)
Nb10Record ==
  PutBytes(\h240, NB10) @@ Put32(\h248, <<\h0001, \hCAFE>>) @@ Put32(\h24C, u32(3))
  @@ PutBytes(\h250, <<97, 47, 98, 46, 112, 100, 98>>)
DebugEntryBytes(o, type, pointer, size_of_data) ==
  Put32(o + 12, type) @@ Put32(o + 16, size_of_data) @@ Put32(o + 24, pointer)
TlsBytes(address_of_callbacks) ==
  Put64(\h380, <<\h1000, \h4000, 1, 0>>) @@ Put64(\h398, address_of_callbacks)
  @@ Put64(\h3A8, <<\h1010, \h4000, 1, 0>>) @@ Put64(\h3B0, <<\h1020, \h4000, 1, 0>>)
  @@ Put64(\h3F8, <<\h1030, \h4000, 1, 0>>)
DebugImage(debug_size, first, tls_rva, address_of_callbacks) ==
  Image(1024,
        DirectoryBytes(64, 6, u32(\h20C0), debug_size)
        @@ DirectoryBytes(64, 9, tls_rva, u32(40))
        @@ DebugEntryBytes(\h3C0, first[1], first[2], first[3])
        @@ DebugEntryBytes(\h3DC, IMAGE_DEBUG_TYPE_CODEVIEW, u32(\h200), u32(37))
        @@ RsdsRecord @@ Nb10Record @@ TlsBytes(address_of_callbacks) @@ GoodHeaders)
FirstDebugEntries ==
  { <<IMAGE_DEBUG_TYPE_CODEVIEW, u32(\h240), u32(24)>>,
    <<IMAGE_DEBUG_TYPE_CODEVIEW, u32(\h240), u32(20)>>,
    <<IMAGE_DEBUG_TYPE_CODEVIEW, u32(\h200), u32(24)>>,
    <<IMAGE_DEBUG_TYPE_CODEVIEW, u32(\h200), u32(3)>>,
    <<IMAGE_DEBUG_TYPE_CODEVIEW, u32(0), u32(5)>>,
    <<u32(1), u32(\h200), u32(37)>>,
    <<IMAGE_DEBUG_TYPE_CODEVIEW, u32(\h3F0), u32(\h20)>>,
    <<IMAGE_DEBUG_TYPE_CODEVIEW, <<\hFFF0, \hFFFF>>, u32(\h20)>> }
DebugImages ==
  { DebugImage(debug_size, first, u32(\h2080), <<\h20A8, 0, 1, 0>>) :
      debug_size \in {u32(28), u32(56), u32(60), <<\hFFFF, \hFFFF>>},
      first \in FirstDebugEntries }
  \cup
  { DebugImage(u32(56), <<u32(1), u32(\h200), u32(37)>>, tls_rva, address_of_callbacks) :
      tls_rva \in {u32(0), u32(\h2080), u32(\h20E0), u32(\h5000)},
      address_of_callbacks \in {u64(0), u64(\h20A8), u64(\h5000), u64(\h20F8)} }

\* Images with a section whose raw range leaves the buffer, or is empty.
SectionImages ==
  { Image(1024,
          SectionBytes(328, DotText, u32(\h200), u32(\h1000), raw_size, raw,
                       scn_mem_execute)
          @@ GoodHeaders) :
      raw \in {u32(\h200), u32(\h3F0), u32(\h400), <<\hFFF0, \hFFFF>>},
      raw_size \in {u32(0), u32(\h10), u32(\h11), <<\hFFFF, \hFFFF>>} }

\* The images of the whole parser: the header images and members of each
\* directory's family.
GeneralImages ==
  { ImportImage(<<<<\h2050, 0, 0, 0>>, <<\h0042, 0, 0, \h8000>>>>, u32(\h3000)),
    ImportImage(<<<<\h20FD, 0, 0, 0>>>>, u32(\h3000)),
    RelocationImage(24, 12, 12),
    RelocationImage(8, 12, 8),
    ExceptionImage(24, \h2088, \h20FB),
    ExceptionImage(24, \h20C8, \h20A0),
    ExportImage(u32(\h60), u32(1), u32(3), u32(\h2060), <<1, 2>>),
    FaultyExportImage(u32(\h2000), u32(\h2101), u32(\h2030), u32(\h205A), <<0, 1>>) }
Images == HeaderImages \cup GeneralImages \cup DebugImages \cup SectionImages

Init ==
  /\ buffer_ \in Images
  /\ pe_info_ = NoInfo
  /\ override_base_address_ = u64(0)
  /\ override_entry_point_ = u64(0)
  /\ pc = "new"
  /\ op = NoCall
  /\ ret = NoResult
  /\ walk = NoWalk

Spec == Init /\ [][Next]_vars

-----------------------------------------------------------------------------
(* Claims.                                                                 *)

\* What construction must answer for the buffer, check by check in the order
\* DOS magic, NT signature, machine, optional magic, section table: the error of
\* the first check that fails, BufferOverflow where the record a check needs
\* ends beyond the buffer, "ok" when all pass.
ExpectedConstruction ==
  LET b == buffer_
      lf == Get32(b, 60)
      L == ToNat(lf)
      InBuffer(k, n) == IsSmall(lf) /\ L <= b.size /\ L + k + n <= b.size
      number_of_sections == Get16(b, L + 6)
      size_of_optional_header == Get16(b, L + 20)
  IN IF b.size < 64 THEN BufferOverflow
     ELSE IF Get16(b, 0) # \h5A4D THEN NotPE
     ELSE IF ~InBuffer(0, 4) THEN BufferOverflow
     ELSE IF Get32(b, L) # <<\h4550, 0>> THEN BadNtSignature
     ELSE IF ~InBuffer(4, 20) THEN BufferOverflow
     ELSE IF Get16(b, L + 4) # \h8664 THEN UnsupportedMachine
     ELSE IF ~InBuffer(24, 240) THEN BufferOverflow
     ELSE IF Get16(b, L + 24) # \h020B THEN UnsupportedOptionalMagic
     ELSE IF \E k \in 1..number_of_sections :
               ~InBuffer(24 + size_of_optional_header + 40 * (k - 1), 40)
          THEN BufferOverflow
     ELSE "ok"

\* C1: construction fails with the error of the first header check that does not
\* hold (NotPE, BadNtSignature, UnsupportedMachine, UnsupportedOptionalMagic, or
\* BufferOverflow for a read past the end), leaving no cached headers; on success
\* the section list has number_of_sections entries, entry k read from
\* e_lfanew + 4 + sizeof(FileHeader) + size_of_optional_header + 40 * k.
C1_ConstructionChecksInOrder ==
  /\ pc = "new" => pe_info_ = NoInfo
  /\ pc = "failed" =>
       /\ ret = Throw(ExpectedConstruction)
       /\ pe_info_ = NoInfo
  /\ pc \notin {"new", "failed"} =>
       LET L == ToNat(Get32(buffer_, 60))
           n == Get16(buffer_, L + 6)
           table == L + 4 + 20 + Get16(buffer_, L + 20)
       IN /\ ExpectedConstruction = "ok"
          /\ Len(pe_info_.section_headers) = n
          /\ pe_info_.file_header.number_of_sections = n
          /\ \A k \in 1..n :
               pe_info_.section_headers[k] = SectionHeader(buffer_, table + 40 * (k - 1))

\* C1's case: a buffer with a bad DOS magic and a bad NT signature,
\* rejected for the DOS magic.
C1_Witness ==
  /\ pc = "failed"
  /\ ret = Throw(NotPE)
  /\ buffer_.size >= 68
  /\ Get32(buffer_, ToNat(Get32(buffer_, 60))) # <<\h4550, 0>>

-----------------------------------------------------------------------------
\* The range of a section and the offset of an RVA in it, in unbounded integers
\* (64 bits hold every sum of two 32-bit values) and as the 32-bit values.
Mod32(x) == <<x[1], x[2], 0, 0>>
SectionEnd(S) == add_u64(to_u64(S.virtual_address), to_u64(S.virtual_size))
InRangeExact(r, S) ==
  /\ LeN(to_u64(S.virtual_address), to_u64(r), 4)
  /\ lt_u64(to_u64(r), SectionEnd(S))
InRange32(r, S) ==
  /\ LeN(to_u64(S.virtual_address), to_u64(r), 4)
  /\ lt_u64(to_u64(r), Mod32(SectionEnd(S)))
\* r + raw - va: exact when r >= va.
OffsetIn(r, S) ==
  SubN(add_u64(to_u64(r), to_u64(S.pointer_to_raw_data)), to_u64(S.virtual_address), 4)

\* C2 as claimed: for every section S whose range [va, va + vsize) holds r,
\* rva_to_offset(r) = r - S.va + S.raw, and r in no section's range fails with
\* RvaUnmapped; for every section table.
C2_EverySectionMapsItsRvas ==
  (pc = "ready" /\ op.name = "rva_to_offset") =>
    LET r == op.arg
        S == pe_info_.section_headers
    IN /\ \A k \in 1..Len(S) : InRangeExact(r, S[k]) => ret = Ok(OffsetIn(r, S[k]))
       /\ (\A k \in 1..Len(S) : ~InRangeExact(r, S[k])) => ret = Throw(RvaUnmapped)

\* C2, amended: rva_to_offset(r) answers for the first section F in table order
\* with F.va <= r < (F.va + F.vsize) mod 2^32, returning (r - F.va + F.raw) mod
\* 2^32, and fails with RvaUnmapped exactly when no section passes that test.
C2_FirstSectionMapsItsRvas ==
  (pc = "ready" /\ op.name = "rva_to_offset") =>
    LET r == op.arg
        S == pe_info_.section_headers
        holding == {k \in 1..Len(S) : InRange32(r, S[k])}
    IN IF holding = {} THEN ret = Throw(RvaUnmapped)
       ELSE LET F == CHOOSE k \in holding : \A j \in holding : k <= j
            IN ret = Ok(Mod32(OffsetIn(r, S[F])))

\* C2's case: an RVA that two sections hold, with different offsets, was mapped.
C2_Witness ==
  /\ pc = "ready" /\ op.name = "rva_to_offset" /\ ret.kind = "ok"
  /\ \E j, k \in 1..Len(pe_info_.section_headers) :
       LET S == pe_info_.section_headers
       IN /\ j < k
          /\ InRange32(op.arg, S[j]) /\ InRange32(op.arg, S[k])
          /\ OffsetIn(op.arg, S[j]) # OffsetIn(op.arg, S[k])

-----------------------------------------------------------------------------
\* The file offset of an RVA that some section holds, and whether one does.
Mapped(rva) == IsOk(rva_to_offset(This, rva))
FileOffset(rva) == ToNat(rva_to_offset(This, rva).value)

\* The import descriptors of the buffer: descriptor k (from 1) of the table at
\* data directory 1, and slot i (from 0) of its lookup table.
MaxDescriptors == 3
ImportDescriptor(k) ==
  ImportDirectory(buffer_, FileOffset(pe_info_.data_directories[2].virtual_address)
                           + 20 * (k - 1))
LookupSlot(d, i) == Get64(buffer_, FileOffset(d.import_lookup_table_rva) + 8 * i)
\* Descriptor k is walked: it and all before it lie in the buffer and have a
\* lookup table.
Walked(k) ==
  \A j \in 1..k :
    /\ FileOffset(pe_info_.data_directories[2].virtual_address) + 20 * j <= buffer_.size
    /\ ~IsZero(ImportDescriptor(j).import_lookup_table_rva)
\* Slot i of d's lookup table is reached: the slots up to it lie in the buffer
\* and none before it is zero.
Reached(d, i) ==
  /\ FileOffset(d.import_lookup_table_rva) + 8 * (i + 1) <= buffer_.size
  /\ \A j \in 0..(i - 1) : ~IsZero(LookupSlot(d, j))
\* s is the string at o: its bytes, none zero, ended by a zero byte (or by the
\* end of the buffer).
IsStringAt(s, o) ==
  /\ \A j \in 1..Len(s) : s[j] = Byte(buffer_, o + j - 1) /\ s[j] # 0
  /\ o + Len(s) <= buffer_.size
  /\ o + Len(s) < buffer_.size => Byte(buffer_, o + Len(s)) = 0

-----------------------------------------------------------------------------
\* The relocation blocks of the buffer as the directory lays them out: block k
\* (from 1) starts where block k - 1 ends, the first at the directory's offset.
RelocationOffset == FileOffset(pe_info_.data_directories[6].virtual_address)
RECURSIVE BlockOffset(_)
BlockOffset(k) ==
  IF k = 1 THEN RelocationOffset
  ELSE BlockOffset(k - 1) + ToNat(Get32(buffer_, BlockOffset(k - 1) + 4))
BlockSize(k) == ToNat(Get32(buffer_, BlockOffset(k) + 4))

\* C10 as claimed: when get_relocation_directory returns, the size_of_block of
\* the emitted blocks add up to directory.size, no header or entry is read at or
\* beyond offset + directory.size, and each block has (size_of_block - 8) / 2
\* entries decoded as type = high 4 bits, offset = low 12 bits.
C10_RelocationBlocksCoverDirectory ==
  (pc = "ready" /\ op.name = "get_relocation_directory" /\ ret.kind = "ok"
     /\ ~IsZero(pe_info_.data_directories[6].virtual_address)) =>
    LET n == Len(ret.value)
        directory_size == ToNat(pe_info_.data_directories[6].size)
    IN /\ BlockOffset(n + 1) - RelocationOffset = directory_size
       /\ \A k \in 1..n :
            LET entries == ret.value[k].entries
            IN /\ Len(entries) = (BlockSize(k) - 8) \div 2
               /\ BlockOffset(k) + 8 + 2 * Len(entries)
                    <= RelocationOffset + directory_size
               /\ \A i \in 1..Len(entries) :
                    LET value == Get16(buffer_, BlockOffset(k) + 8 + 2 * (i - 1))
                    IN /\ entries[i].type = value \div 4096
                       /\ entries[i].offset = value % 4096

-----------------------------------------------------------------------------
(* The exception directory.                                                *)

ExceptionDirectory == pe_info_.data_directories[4]
ExceptionCount == ToNat(ExceptionDirectory.size) \div 12
\* The directory's RVA lies in a section and all size / 12 entries of the table
\* lie in the buffer.
ExceptionTableReadable ==
  /\ ~IsZero(ExceptionDirectory.virtual_address)
  /\ Mapped(ExceptionDirectory.virtual_address)
  /\ IsSmall(ExceptionDirectory.size)
  /\ FileOffset(ExceptionDirectory.virtual_address) + 12 * ExceptionCount
       <= buffer_.size
TableEntry(k) ==
  RuntimeFunction(buffer_,
                  FileOffset(ExceptionDirectory.virtual_address) + 12 * (k - 1))
UnwindReadable(rva) ==
  /\ ~IsZero(rva)
  /\ Mapped(rva)
  /\ FileOffset(rva) + 6 <= buffer_.size
\* The records emitted so far by the call in progress or returned by it.
Emitted ==
  IF pc = "exceptions" THEN walk.result
  ELSE IF pc = "ready" /\ ret.kind = "ok" THEN ret.value
  ELSE <<>>

C4_EveryWalkTerminates ==
  (pc = "exceptions") ~> (pc = "ready" /\ ret.kind \in {"ok", "throw"})

-----------------------------------------------------------------------------
(* The export directory.                                                   *)

ExportDir == pe_info_.data_directories[1]
ExportTable == ExportDirectory(buffer_, FileOffset(ExportDir.virtual_address))
\* The table ordinal and the function RVA of name index i (from 0).
TableOrdinal(i) ==
  Get16(buffer_, FileOffset(ExportTable.address_of_name_ordinals) + 2 * i)
FunctionRva(i) ==
  Get32(buffer_, FileOffset(ExportTable.address_of_functions) + 4 * TableOrdinal(i))
EffectiveImageBase ==
  IF IsZero(override_base_address_) THEN pe_info_.optional_header.image_base
  ELSE override_base_address_
\* va <= function_rva < va + size, the sum taken in uint32_t as the code does.
InExportRange(function_rva) ==
  /\ LeN(ExportDir.virtual_address, function_rva, 2)
  /\ LtN(function_rva, AddN(ExportDir.virtual_address, ExportDir.size, 2), 2)

\* C9: a returned export list has number_of_names entries; entry i has public
\* ordinal o + base for o = ordinals[i], address 0 when functions[o] = 0 and
\* else the effective image base (the override when non-zero) + functions[o],
\* and forwarder_ordinal = o exactly when functions[o] lies in the export
\* directory's range, the address of a forwarded export not being zeroed.
C9_ExportEntriesFollowTables ==
  (pc = "ready" /\ op.name = "get_export_directory" /\ ret.kind = "ok"
     /\ ~IsZero(ExportDir.virtual_address)) =>
    /\ IsSmall(ExportTable.number_of_names)
    /\ Len(ret.value.entries) = ToNat(ExportTable.number_of_names)
    /\ \A k \in 1..Len(ret.value.entries) :
         LET e == ret.value.entries[k]
             o == TableOrdinal(k - 1)
             function_rva == FunctionRva(k - 1)
         IN /\ e.ordinal = AddN(<<o, 0>>, ExportTable.base, 2)
            /\ e.address = IF IsZero(function_rva) THEN <<0, 0, 0, 0>>
                           ELSE AddN(EffectiveImageBase,
                                     <<function_rva[1], function_rva[2], 0, 0>>, 4)
            /\ e.forwarder_ordinal =
                 IF InExportRange(function_rva) THEN <<o>> ELSE <<>>

\* A returned list under a base override with a forwarded export whose address
\* is the override + function_rva, an export that is not forwarded, and one
\* whose function RVA and address are zero.
C9_Witness ==
  /\ pc = "ready" /\ op.name = "get_export_directory" /\ ret.kind = "ok"
  /\ ~IsZero(override_base_address_)
  /\ Len(ret.value.entries) = 3
  /\ \E k \in 1..3 :
       /\ ret.value.entries[k].forwarder_ordinal = <<TableOrdinal(k - 1)>>
       /\ ret.value.entries[k].address =
            AddN(override_base_address_, <<\h205F, 0, 0, 0>>, 4)
  /\ \E k \in 1..3 :
       /\ ret.value.entries[k].forwarder_ordinal = <<>>
       /\ ~IsZero(ret.value.entries[k].address)
  /\ \E k \in 1..3 : IsZero(ret.value.entries[k].address)

-----------------------------------------------------------------------------
(* Accesses to the buffer.                                                 *)

\* C3 as claimed: every access of S bytes at offset O that construction or an
\* accessor makes has O + S <= buffer.size; an access that would cross the end
\* of the buffer is reported as BufferOverflow, never carried out.  This is to
\* cover the raw copies of sections and debug payloads and the starts of
\* string scans.
C3_EveryAccessInsideBuffer ==
  ret.kind = "ub" => LeN(add_u64(ret.offset, ret.length), u64(buffer_.size), 4)

-----------------------------------------------------------------------------
(* The overrides.                                                          *)

OnDiskImageBase == pe_info_.optional_header.image_base
OnDiskEntryPoint ==
  AddN(OnDiskImageBase,
       <<pe_info_.optional_header.address_of_entry_point[1],
         pe_info_.optional_header.address_of_entry_point[2], 0, 0>>, 4)

\* C5: the override fields are 0 after construction and hold the value last
\* written; get_image_base returns the base override b when b # 0 and else the
\* image base on disk; get_entry_point returns get_image_base() + p for the
\* entry override p # 0 and else the image base on disk + address_of_entry_point,
\* whatever b is.  With both overrides 0 again the two return what they
\* returned after construction.
C5_OverridesSupersedeDiskValues ==
  LET b == override_base_address_
      p == override_entry_point_
  IN /\ pc \in {"new", "failed"} \/ (pc = "ready" /\ op.name = "Parser") =>
          IsZero(b) /\ IsZero(p)
     /\ (pc = "ready" /\ op.name = "override_base_address") => b = op.arg
     /\ (pc = "ready" /\ op.name = "override_entry_point") => p = op.arg
     /\ (pc = "ready" /\ op.name = "get_image_base") =>
          ret = Ok(IF IsZero(b) THEN OnDiskImageBase ELSE b)
     /\ (pc = "ready" /\ op.name = "get_entry_point") =>
          ret = Ok(IF IsZero(p) THEN OnDiskEntryPoint
                   ELSE AddN(IF IsZero(b) THEN OnDiskImageBase ELSE b, p, 4))

\* get_entry_point under both overrides, their sum wrapping at 2^64.
C5_Witness ==
  /\ pc = "ready" /\ op.name = "get_entry_point"
  /\ ~IsZero(override_base_address_) /\ ~IsZero(override_entry_point_)
  /\ ret = Ok(AddN(override_base_address_, override_entry_point_, 4))
  /\ LtN(ret.value, override_base_address_, 4)
  /\ ret.value # OnDiskEntryPoint

\* The operations whose results do not depend on the overrides, computed with
\* both overrides 0.
WithoutOverrides == Parser(buffer_, pe_info_, u64(0), u64(0))
ResultWithoutOverrides ==
  IF op.name = "rva_to_offset" THEN rva_to_offset(WithoutOverrides, op.arg)
  ELSE IF op.name = "get_section_data" THEN get_section_data(WithoutOverrides, op.arg)
  ELSE IF op.name = "get_relocation_directory"
       THEN get_relocation_directory(WithoutOverrides)
  ELSE IF op.name = "get_import_directory" THEN get_import_directory(WithoutOverrides)
  ELSE IF op.name = "get_tls_directory" THEN get_tls_directory(WithoutOverrides)
  ELSE IF op.name = "get_debug_directory" THEN get_debug_directory(WithoutOverrides)
  ELSE IF op.name = "get_pdb_path" THEN get_pdb_path(WithoutOverrides)
  ELSE get_pdb_url(WithoutOverrides)
OverrideFree ==
  {"rva_to_offset", "get_section_data", "get_relocation_directory",
   "get_import_directory", "get_tls_directory", "get_debug_directory",
   "get_pdb_path", "get_pdb_url"}

\* What a step may write: nothing of the parser unless it is a write of an
\* override, and then that override only.
WritesOnlyItsField ==
  /\ buffer_' = buffer_
  /\ pc # "new" => pe_info_' = pe_info_
  /\ override_base_address_' # override_base_address_ =>
       op'.name = "override_base_address"
  /\ override_entry_point_' # override_entry_point_ =>
       op'.name = "override_entry_point"

\* C6: after construction no query, returning or failing, changes the buffer,
\* the cached headers (section table and data directories among them) or an
\* override field, and a write of an override changes that field only; the
\* results of rva_to_offset, section_data, relocations, imports, TLS, debug,
\* pdb_path and pdb_url are what they are with both overrides 0.
C6_QueriesWriteNothing ==
  /\ [](pc = "ready" /\ op.name \in OverrideFree => ret \in Outcomes(ResultWithoutOverrides))
  /\ [][WritesOnlyItsField]_vars

\* A failed query under both overrides, and they are still in place.
C6_Witness ==
  /\ pc = "ready" /\ op.name = "get_section_data" /\ ret.kind = "throw"
  /\ ~IsZero(override_base_address_) /\ ~IsZero(override_entry_point_)

-----------------------------------------------------------------------------
(* NUL-terminated strings.                                                 *)

\* A zero byte lies at or after offset o, before the end of the buffer.
HasNul(o) == \E j \in o..(buffer_.size - 1) : Byte(buffer_, j) = 0
\* s is the string at o and the zero byte that ends it is in the buffer.
EndsAtNul(s, o) == IsStringAt(s, o) /\ o + Len(s) < buffer_.size
\* The RVA of the name of name index i (from 0) of the export table.
ExportNameRva(i) == Get32(buffer_, FileOffset(ExportTable.address_of_names) + 4 * i)

\* C11 as claimed: every extracted string (import DLL name, imported function
\* name, export library name, export function name) runs from its start offset
\* to the first zero byte; when no zero byte lies between the start and the end
\* of the buffer the extraction fails with Truncated, so an accessor that
\* returns has found a zero byte in the buffer after each string it extracted
\* and returns no string made of the bytes up to the end of the buffer.
C11_StringsEndAtNul ==
  /\ (pc = "ready" /\ op.name = "get_import_directory" /\ ret.kind = "ok"
        /\ ~IsZero(pe_info_.data_directories[2].virtual_address)) =>
       \A k \in 1..Len(ret.value) :
         LET d == ImportDescriptor(k)
             entries == ret.value[k].entries
         IN /\ EndsAtNul(ret.value[k].dll_name, FileOffset(d.name_rva))
            /\ \A i \in 0..(Len(entries) - 1) :
                 LET slot == LookupSlot(d, i)
                 IN entries[i + 1].name # <<>> =>
                      EndsAtNul(entries[i + 1].name[1],
                                FileOffset(<<slot[1], slot[2] % \h8000>>) + 2)
  /\ (pc = "ready" /\ op.name = "get_export_directory" /\ ret.kind = "ok"
        /\ ~IsZero(ExportDir.virtual_address)) =>
       /\ ~IsZero(ExportTable.name_rva) => HasNul(FileOffset(ExportTable.name_rva))
       /\ \A k \in 1..Len(ret.value.entries) :
            ~IsZero(ExportNameRva(k - 1)) =>
              EndsAtNul(ret.value.entries[k].name, FileOffset(ExportNameRva(k - 1)))

====
